---- MODULE Spec2Model ----
(***************************************************************************)
(* A model of tokio-tun: allocation of a TUN adapter (src/src/tun.rs),     *)
(* the control-socket (utun) backend (src/src/macos/interface.rs) and its  *)
(* packet framer (src/src/macos/io.rs).                                    *)
(*                                                                         *)
(* The kernel is the environment: a table of open descriptors, one         *)
(* adapter record, and the packets queued on the device.  Every OS call    *)
(* the code makes is an operator on the kernel record `os`; a call fails   *)
(* when the kernel state makes it fail (bad descriptor, busy unit, unset   *)
(* address) or when its name is in os.f, the set of calls the environment  *)
(* rejects during the current operation.  os.sys is the list of OS calls   *)
(* issued by the current operation, os.calls the list of Interface         *)
(* accessor invocations.                                                   *)
(*                                                                         *)
(* The sources of the direct-device (linux) Interface and TunIo are not    *)
(* part of src/; the definitions that stand for them are modelled from     *)
(* the specification and are named Linux*.                                 *)
(***************************************************************************)
EXTENDS Integers, Sequences, FiniteSets, TLC

VARIABLES
  platform,   \* "macos" | "linux": the cfg(target_os) the crate was built for
  params,     \* the Params value handed to Tun::new / Tun::new_mq
  queues,     \* the queue count handed to Tun::new_mq
  os,         \* the kernel: descriptors, adapter, device queue, call logs
  pc,         \* "new" before construction, "live" after Ok, "failed" after Err
  iface,      \* the Interface inside the Arc (fds, socket, name), or NoIface
  arc,        \* strong count of the Arc<Interface>
  tuns,       \* the Vec<Tun> returned: one record per Queue Handle
  ret,        \* what the last operation returned to its caller
  hist,       \* facts about earlier operations that later ones are compared to
  tasks       \* the data-path operations in progress: futures, blocked calls

vars == <<platform, params, queues, os, pc, iface, arc, tuns, ret, hist, tasks>>

----------------------------------------------------------------------------
(* Bounds of the model *)

\* largest queue count handed to new_mq
MaxQueues == 2
\* longest caller buffer handed to recv
MaxBuf == 2
\* number of leading utun units that other processes may already hold
MaxBusy == 2
\* number of packets the device queues for reading
MaxRx == 1
\* number of data-path operations in progress at a time
MaxTasks == 2

(* Program constants *)

\* 0..16 in the scan of allocate
ScanEnd == 16
\* the length of the utun protocol-family header
HeaderLen == 4
IFF_UP == 1
IFF_RUNNING == 64
\* file status flags of fcntl
O_RDWR == 2
O_NONBLOCK == 4

----------------------------------------------------------------------------
(* Option<T> *)
None == <<>>
Some(v) == <<v>>
IsSome(o) == o # None
Unwrap(o) == o[1]

\* let v = value; body(v): the value is computed once and then named
With(value, body(_)) == CHOOSE r \in {body(v) : v \in {value}} : TRUE

(* Result<T>: ok with a value, or an error naming the OS call that failed *)
Ok(k, v) == [os |-> k, ok |-> TRUE, val |-> v, err |-> "none"]
Err(k, e) == [os |-> k, ok |-> FALSE, val |-> None, err |-> e]

----------------------------------------------------------------------------
(* Fixed-width integers *)

RECURSIVE BitOrN(_, _, _)
\* bitwise OR of two bit patterns of width w
BitOrN(a, b, w) ==
  IF w = 0 THEN 0
  ELSE (IF a % 2 = 1 \/ b % 2 = 1 THEN 1 ELSE 0) + 2 * BitOrN(a \div 2, b \div 2, w - 1)

\* i16 | i16, on the 16-bit patterns
BitOr16(a, b) == BitOrN(a, b, 16)

\* A u32 is kept as its two 16-bit halves <<high, low>>, because 2^32 does not
\* fit the tool's integers.
U32FromBeBytes(octets) == <<octets[1] * 256 + octets[2], octets[3] * 256 + octets[4]>>
U32ToBeBytes(word) ==
  <<word[1] \div 256, word[1] % 256, word[2] \div 256, word[2] % 256>>
U32Or(x, y) == <<BitOr16(x[1], y[1]), BitOr16(x[2], y[2])>>
U32Not(x) == <<65535 - x[1], 65535 - x[2]>>

----------------------------------------------------------------------------
(* The kernel *)

\* descriptor numbers a process gets: the lowest free one, from 3 up
FdNums == 3..(3 + MaxQueues + 1)
\* the value the kernel keeps for an address that was never assigned
Unset == <<>>
\* the adapter fields that hold an address
AddrFields == {"address", "netmask", "destination", "broadcast"}
\* sin_family of an IPv4 socket address
AF_INET == 2

MinOf(S) == CHOOSE x \in S : \A y \in S : x <= y

\* one OS call is appended to the log of the current operation
Logged(k, call, fd, arg) ==
  [k EXCEPT !.sys = Append(@, [call |-> call, fd |-> fd, arg |-> arg])]

\* how often the current operation has issued a call so far
Count(k, call) == Cardinality({j \in 1..Len(k.sys) : k.sys[j].call = call})

\* whether the environment rejects this call during the current operation:
\* the calls named in k.f are rejected from their k.nth issue on
Rejected(k, call) == call \in k.f /\ Count(k, call) + 1 >= k.nth

\* the kernel with one more failed call of the current operation
Failing(k, call) == [k EXCEPT !.failed = Append(@, call)]

\* socket(2) and open(2): the lowest free descriptor, or -1
SysOpen(k, call, nonblock) ==
  With(Logged(k, call, -1, None), LAMBDA k1 :
    IF Rejected(k, call) \/ FdNums \ k1.open = {}
      THEN [os |-> Failing(k1, call), ret |-> -1]
      ELSE With(MinOf(FdNums \ k1.open), LAMBDA fd :
             [os |-> [k1 EXCEPT !.open = @ \cup {fd},
                               !.nb = IF nonblock THEN @ \cup {fd} ELSE @ \ {fd},
                               !.unit = [@ EXCEPT ![fd] = -1]],
              ret |-> fd]))

\* close(2): EBADF on a descriptor that is not open
SysClose(k, fd) ==
  With(Logged(k, "close", fd, None), LAMBDA k1 :
    IF fd \in k1.open
      THEN [k1 EXCEPT !.open = @ \ {fd}, !.nb = @ \ {fd},
                      !.closes = [@ EXCEPT ![fd] = @ + 1]]
      ELSE Failing([k1 EXCEPT !.ebadf = [@ EXCEPT ![fd] = @ + 1]], "close"))

\* fcntl(fd, F_GETFL): the file status flags, or -1
SysGetFl(k, fd) ==
  With(Logged(k, "F_GETFL", fd, None), LAMBDA k1 :
    IF fd \notin k1.open \/ Rejected(k, "F_GETFL")
      THEN [os |-> Failing(k1, "F_GETFL"), ret |-> -1]
      ELSE [os |-> k1, ret |-> IF fd \in k1.nb THEN O_RDWR + O_NONBLOCK ELSE O_RDWR])

\* fcntl(fd, F_SETFL, flags): the descriptor is non-blocking iff flags carries
\* O_NONBLOCK
SysSetFl(k, fd, flags) ==
  With(Logged(k, "F_SETFL", fd, Some(flags)), LAMBDA k1 :
    IF fd \notin k1.open \/ Rejected(k, "F_SETFL")
      THEN [os |-> Failing(k1, "F_SETFL"), ret |-> -1]
      ELSE [os |-> [k1 EXCEPT !.nb = IF BitOr16(flags, O_NONBLOCK) = flags
                                       THEN @ \cup {fd} ELSE @ \ {fd}],
            ret |-> 0])

\* connect(2) of a utun control socket to a unit: fails when the unit is held
SysConnect(k, fd, unit) ==
  With(Logged(k, "connect", fd, Some(unit)), LAMBDA k1 :
    IF fd \notin k1.open \/ Rejected(k, "connect") \/ unit \in k1.busy
      THEN [os |-> Failing(k1, "connect"), ret |-> -1]
      ELSE [os |-> [k1 EXCEPT !.unit = [@ EXCEPT ![fd] = unit]], ret |-> 0])

\* the ioctl requests of the adapter: request code -> adapter field
SetField(call) ==
  CASE call = "SIOCSIFMTU" -> "mtu"
    [] call = "SIOCSIFADDR" -> "address"
    [] call = "SIOCSIFNETMASK" -> "netmask"
    [] call = "SIOCSIFDSTADDR" -> "destination"
    [] call = "SIOCSIFFLAGS" -> "flags"
    [] call = "SIOCSIFBRDADDR" -> "broadcast"
    [] OTHER -> "none"
GetField(call) ==
  CASE call = "SIOCGIFMTU" -> "mtu"
    [] call = "SIOCGIFADDR" -> "address"
    [] call = "SIOCGIFNETMASK" -> "netmask"
    [] call = "SIOCGIFDSTADDR" -> "destination"
    [] call = "SIOCGIFFLAGS" -> "flags"
    [] call = "SIOCGIFBRDADDR" -> "broadcast"
    [] OTHER -> "none"

\* ioctl(fd, request, &req) on the adapter named in req: a set request stores
\* req's value in the adapter, a get request fills req from the adapter.
\* Addresses travel as socket addresses; one that was never assigned cannot
\* be read.
SysIoctl(k, fd, call, req) ==
  With(SetField(call), LAMBDA sf : With(GetField(call), LAMBDA gf :
  With(Logged(k, call, fd, IF sf # "none" THEN Some(req.ifru) ELSE None), LAMBDA k1 :
    IF fd \notin k1.open \/ Rejected(k, call)
      THEN [os |-> Failing(k1, call), ret |-> -1, req |-> req]
    ELSE IF sf \in AddrFields
      THEN [os |-> [k1 EXCEPT !.ad = [@ EXCEPT ![sf] = req.ifru.sin_addr]],
            ret |-> 0, req |-> req]
    ELSE IF sf # "none"
      THEN [os |-> [k1 EXCEPT !.ad = [@ EXCEPT ![sf] = req.ifru]],
            ret |-> 0, req |-> req]
    ELSE IF gf \in AddrFields
      THEN IF k1.ad[gf] = Unset THEN [os |-> Failing(k1, call), ret |-> -1, req |-> req]
           ELSE [os |-> k1, ret |-> 0,
                 req |-> [req EXCEPT !.ifru = [sin_family |-> AF_INET,
                                               sin_addr |-> k1.ad[gf]]]]
    ELSE [os |-> k1, ret |-> 0, req |-> [req EXCEPT !.ifru = k1.ad[gf]]])))

\* read(fd, buf, count) on the device: the oldest queued datagram, cut to
\* count bytes (a datagram is consumed whole).  With none queued a
\* non-blocking descriptor fails with EAGAIN and a blocking one does not
\* return: that outcome is errno "BLOCKS", and leaves the kernel as it was.
\* ret is the byte count or -1; the log keeps the count and the errno.
SysRead(k, fd, count) ==
  IF fd \notin k.open \/ Rejected(k, "read")
    THEN [os |-> Failing(Logged(k, "read", fd,
                                Some([count |-> count, ret |-> -1, data |-> <<>>,
                                      errno |-> "EIO"])), "read"),
          ret |-> -1, data |-> <<>>, errno |-> "EIO"]
  ELSE IF k.rx = <<>> /\ fd \notin k.nb
    THEN [os |-> k, ret |-> -1, data |-> <<>>, errno |-> "BLOCKS"]
  ELSE IF k.rx = <<>>
    THEN [os |-> Failing(Logged(k, "read", fd,
                                Some([count |-> count, ret |-> -1, data |-> <<>>,
                                      errno |-> "EAGAIN"])), "read"),
          ret |-> -1, data |-> <<>>, errno |-> "EAGAIN"]
  ELSE With(IF Len(Head(k.rx)) <= count THEN Head(k.rx) ELSE SubSeq(Head(k.rx), 1, count),
    LAMBDA data :
      [os |-> Logged([k EXCEPT !.rx = Tail(@)], "read", fd,
                     Some([count |-> count, ret |-> Len(data), data |-> data,
                           errno |-> "none"])),
       ret |-> Len(data), data |-> data, errno |-> "none"])

\* write(fd, buf, count) on the device: the device takes the bytes as one
\* datagram, k.wlimit bytes of them when the environment cuts the write
\* short.  k.tx is the datagram the device holds for transmission; while it
\* holds one it accepts no data: the write fails a non-blocking descriptor
\* with EAGAIN and does not return on a blocking one (errno "BLOCKS").
SysWrite(k, fd, data) ==
  IF fd \notin k.open \/ Rejected(k, "write")
    THEN [os |-> Failing(Logged(k, "write", fd,
                                Some([data |-> data, ret |-> -1, errno |-> "EIO"])), "write"),
          ret |-> -1, errno |-> "EIO"]
  ELSE IF IsSome(k.tx) /\ fd \notin k.nb
    THEN [os |-> k, ret |-> -1, errno |-> "BLOCKS"]
  ELSE IF IsSome(k.tx)
    THEN [os |-> Failing(Logged(k, "write", fd,
                                Some([data |-> data, ret |-> -1, errno |-> "EAGAIN"])), "write"),
          ret |-> -1, errno |-> "EAGAIN"]
  ELSE With(IF IsSome(k.wlimit) /\ Unwrap(k.wlimit) < Len(data)
              THEN Unwrap(k.wlimit) ELSE Len(data),
    LAMBDA n :
      [os |-> Logged([k EXCEPT !.tx = Some(SubSeq(data, 1, n))], "write", fd,
                     Some([data |-> data, ret |-> n, errno |-> "none"])),
       ret |-> n, errno |-> "none"])

\* fsync(fd): commit is "ok" when the descriptor's file type has a commit
\* operation and it succeeds, "fails" when it has one and it fails, and
\* "unsupported" when the file type has none (a socket): fsync then fails
\* with EINVAL/ENOTSUP.
SysFsync(k, fd, commit) ==
  IF fd \notin k.open \/ Rejected(k, "fsync") \/ commit # "ok"
    THEN With(IF commit = "unsupported" THEN "ENOTSUP" ELSE "EIO", LAMBDA e :
      [os |-> Failing(Logged(k, "fsync", fd,
                             Some([commit |-> commit, ret |-> -1, errno |-> e])), "fsync"),
       ret |-> -1, errno |-> e])
    ELSE [os |-> Logged(k, "fsync", fd, Some([commit |-> commit, ret |-> 0, errno |-> "none"])),
          ret |-> 0, errno |-> "none"]

DigitChars == <<"0", "1", "2", "3", "4", "5", "6", "7", "8", "9">>
RECURSIVE Decimal(_)
Decimal(n) ==
  IF n < 10 THEN <<DigitChars[n + 1]>>
  ELSE Decimal(n \div 10) \o <<DigitChars[(n % 10) + 1]>>

\* the name the kernel gives the adapter of a unit, as getsockopt reports it:
\* the characters and a terminating NUL
KernelIfName(unit) == <<"u", "t", "u", "n">> \o Decimal(unit) \o <<"NUL">>

\* getsockopt(fd, SYSPROTO_CONTROL, UTUN_OPT_IFNAME): the name and its length
SysGetIfName(k, fd) ==
  With(Logged(k, "getsockopt", fd, None), LAMBDA k1 :
    IF fd \notin k1.open \/ Rejected(k, "getsockopt") \/ k1.unit[fd] < 0
      THEN [os |-> Failing(k1, "getsockopt"), ret |-> -1, name_buf |-> <<>>, name_len |-> 0]
      ELSE [os |-> k1, ret |-> 0, name_buf |-> KernelIfName(k1.unit[fd]),
            name_len |-> Len(KernelIfName(k1.unit[fd]))])

----------------------------------------------------------------------------
(* The control-structure codec (its source is not part of src/) *)

\* ifreq::new(name): the request structure for an adapter, its union zeroed
IfreqNew(name) == [ifr_name |-> name, ifru |-> 0]
\* Ipv4Addr -> sockaddr and back
ToAddress(ip) == [sin_family |-> AF_INET, sin_addr |-> ip]
FromAddress(sa) == sa.sin_addr

----------------------------------------------------------------------------
(* Interface: src/src/macos/interface.rs *)

NoIface == [fds |-> <<>>, socket |-> -1, name |-> <<>>]

\* the accessor invocation is recorded with its outcome
Called(r, m, arg) ==
  With(r, LAMBDA r1 :
    [r1 EXCEPT !.os = [@ EXCEPT !.calls =
        Append(@, [m |-> m, arg |-> arg, ok |-> r1.ok, val |-> r1.val])]])

InterfaceNew(k, fds, name, flags) ==
  With(SysOpen(k, "socket", FALSE), LAMBDA s :
    Ok(s.os, [fds |-> fds, socket |-> s.ret, name |-> name]))

InterfaceMtu(self, k, mtu) ==
  With(IfreqNew(self.name), LAMBDA req :
    Called(
      IF IsSome(mtu)
        THEN With(SysIoctl(k, self.socket, "SIOCSIFMTU", [req EXCEPT !.ifru = Unwrap(mtu)]),
               LAMBDA r : IF r.ret < 0 THEN Err(r.os, "SIOCSIFMTU") ELSE Ok(r.os, r.req.ifru))
        ELSE With(SysIoctl(k, self.socket, "SIOCGIFMTU", req),
               LAMBDA r : IF r.ret < 0 THEN Err(r.os, "SIOCGIFMTU") ELSE Ok(r.os, r.req.ifru)),
      "mtu", mtu))

\* netmask, address and destination are one pattern over three request pairs
AddrAccessor(self, k, value, m, setcall, getcall) ==
  With(IfreqNew(self.name), LAMBDA req :
    Called(
      IF IsSome(value)
        THEN With(SysIoctl(k, self.socket, setcall,
                           [req EXCEPT !.ifru = ToAddress(Unwrap(value))]),
               LAMBDA r : IF r.ret < 0 THEN Err(r.os, setcall) ELSE Ok(r.os, Unwrap(value)))
        ELSE With(SysIoctl(k, self.socket, getcall, req),
               LAMBDA r : IF r.ret < 0 THEN Err(r.os, getcall)
                          ELSE Ok(r.os, FromAddress(r.req.ifru))),
      m, value))

\* a netmask accessor whose get reads the address field
InterfaceNetmaskReadsAddress(self, k, netmask) ==
  AddrAccessor(self, k, netmask, "netmask", "SIOCSIFNETMASK", "SIOCGIFADDR")

InterfaceNetmask(self, k, netmask) ==
  AddrAccessor(self, k, netmask, "netmask", "SIOCSIFNETMASK", "SIOCGIFNETMASK")

InterfaceAddress(self, k, address) ==
  AddrAccessor(self, k, address, "address", "SIOCSIFADDR", "SIOCGIFADDR")

InterfaceDestination(self, k, dst) ==
  AddrAccessor(self, k, dst, "destination", "SIOCSIFDSTADDR", "SIOCGIFDSTADDR")

AllOnes == <<255, 255, 255, 255>>

\* a broadcast accessor that leaves the netmask uninverted
InterfaceBroadcastNoNot(self, k, broadcast) ==
  IF IsSome(broadcast)
    THEN Called(Ok(k, Unwrap(broadcast)), "broadcast", broadcast)
    ELSE With(InterfaceAddress(self, k, None), LAMBDA a :
         With(AddrAccessor(self, a.os, None, "netmask", "SIOCSIFNETMASK", "SIOCGIFNETMASK"),
           LAMBDA n :
           Called(
             IF a.ok /\ n.ok
               THEN With(U32FromBeBytes(a.val), LAMBDA addr_bits :
                    With(U32FromBeBytes(n.val), LAMBDA mask_bits :
                      Ok(n.os, U32ToBeBytes(U32Or(addr_bits, mask_bits)))))
               ELSE Ok(n.os, AllOnes),
             "broadcast", broadcast)))

InterfaceBroadcast(self, k, broadcast) ==
  IF IsSome(broadcast)
    THEN Called(Ok(k, Unwrap(broadcast)), "broadcast", broadcast)
    ELSE With(InterfaceAddress(self, k, None), LAMBDA a :
         With(InterfaceNetmask(self, a.os, None), LAMBDA n :
           Called(
             IF a.ok /\ n.ok
               THEN With(U32FromBeBytes(a.val), LAMBDA addr_bits :
                    With(U32FromBeBytes(n.val), LAMBDA mask_bits :
                    With(U32Or(addr_bits, U32Not(mask_bits)), LAMBDA broadcast_bits :
                      Ok(n.os, U32ToBeBytes(broadcast_bits)))))
               ELSE Ok(n.os, AllOnes),
             "broadcast", broadcast)))

\* a flags accessor that writes the requested flags alone
InterfaceFlagsOverwrite(self, k, flags) ==
  With(SysIoctl(k, self.socket, "SIOCGIFFLAGS", IfreqNew(self.name)), LAMBDA g :
    Called(
      IF g.ret < 0 THEN Err(g.os, "SIOCGIFFLAGS")
      ELSE IF IsSome(flags)
        THEN With(SysIoctl(g.os, self.socket, "SIOCSIFFLAGS",
                           [g.req EXCEPT !.ifru = Unwrap(flags)]),
               LAMBDA s : IF s.ret < 0 THEN Err(s.os, "SIOCSIFFLAGS")
                          ELSE Ok(s.os, s.req.ifru))
        ELSE Ok(g.os, g.req.ifru),
      "flags", flags))

InterfaceFlags(self, k, flags) ==
  With(SysIoctl(k, self.socket, "SIOCGIFFLAGS", IfreqNew(self.name)), LAMBDA g :
    Called(
      IF g.ret < 0 THEN Err(g.os, "SIOCGIFFLAGS")
      ELSE IF IsSome(flags)
        THEN With(SysIoctl(g.os, self.socket, "SIOCSIFFLAGS",
                           [g.req EXCEPT !.ifru = BitOr16(@, Unwrap(flags))]),
               LAMBDA s : IF s.ret < 0 THEN Err(s.os, "SIOCSIFFLAGS")
                          ELSE Ok(s.os, s.req.ifru))
        ELSE Ok(g.os, g.req.ifru),
      "flags", flags))

\* if let Some(v) = value { accessor(Some(v))?; } after the steps before it
InitStep(r, present, step(_)) ==
  IF ~r.ok THEN r ELSE IF present THEN step(r.os) ELSE r

\* a step that is attempted whatever became of the steps before it
InitStepNoStop(r, present, step(_)) ==
  IF ~present THEN r
  ELSE With(step(r.os), LAMBDA s : IF r.ok THEN s ELSE [s EXCEPT !.ok = FALSE, !.err = r.err])

\* an init that carries on after a failed step
InterfaceInitNoStop(self, k, p) ==
  With(InitStepNoStop(Ok(k, None), IsSome(p.mtu),
         LAMBDA o : InterfaceMtu(self, o, Some(Unwrap(p.mtu)))), LAMBDA r1 :
  With(InitStepNoStop(r1, IsSome(p.address),
         LAMBDA o : InterfaceAddress(self, o, Some(Unwrap(p.address)))), LAMBDA r2 :
  With(InitStepNoStop(r2, IsSome(p.netmask),
         LAMBDA o : InterfaceNetmask(self, o, Some(Unwrap(p.netmask)))), LAMBDA r3 :
  With(InitStepNoStop(r3, IsSome(p.destination),
         LAMBDA o : InterfaceDestination(self, o, Some(Unwrap(p.destination)))), LAMBDA r4 :
  With(InitStepNoStop(r4, IsSome(p.broadcast),
         LAMBDA o : InterfaceBroadcast(self, o, Some(Unwrap(p.broadcast)))), LAMBDA r5 :
  With(InitStepNoStop(r5, p.up,
         LAMBDA o : InterfaceFlags(self, o, Some(BitOr16(IFF_UP, IFF_RUNNING)))), LAMBDA r6 :
    IF r6.ok THEN Ok(r6.os, None) ELSE Err(r6.os, r6.err)))))))

\* an init that sets the address before the MTU
InterfaceInitAddressFirst(self, k, p) ==
  With(InitStep(Ok(k, None), IsSome(p.address),
         LAMBDA o : InterfaceAddress(self, o, Some(Unwrap(p.address)))), LAMBDA r1 :
  With(InitStep(r1, IsSome(p.mtu),
         LAMBDA o : InterfaceMtu(self, o, Some(Unwrap(p.mtu)))), LAMBDA r2 :
  With(InitStep(r2, IsSome(p.netmask),
         LAMBDA o : InterfaceNetmask(self, o, Some(Unwrap(p.netmask)))), LAMBDA r3 :
  With(InitStep(r3, IsSome(p.destination),
         LAMBDA o : InterfaceDestination(self, o, Some(Unwrap(p.destination)))), LAMBDA r4 :
  With(InitStep(r4, IsSome(p.broadcast),
         LAMBDA o : InterfaceBroadcast(self, o, Some(Unwrap(p.broadcast)))), LAMBDA r5 :
  With(InitStep(r5, p.up,
         LAMBDA o : InterfaceFlags(self, o, Some(BitOr16(IFF_UP, IFF_RUNNING)))), LAMBDA r6 :
    IF r6.ok THEN Ok(r6.os, None) ELSE Err(r6.os, r6.err)))))))

InterfaceInit(self, k, p) ==
  With(InitStep(Ok(k, None), IsSome(p.mtu),
         LAMBDA o : InterfaceMtu(self, o, Some(Unwrap(p.mtu)))), LAMBDA r1 :
  With(InitStep(r1, IsSome(p.address),
         LAMBDA o : InterfaceAddress(self, o, Some(Unwrap(p.address)))), LAMBDA r2 :
  With(InitStep(r2, IsSome(p.netmask),
         LAMBDA o : InterfaceNetmask(self, o, Some(Unwrap(p.netmask)))), LAMBDA r3 :
  With(InitStep(r3, IsSome(p.destination),
         LAMBDA o : InterfaceDestination(self, o, Some(Unwrap(p.destination)))), LAMBDA r4 :
  With(InitStep(r4, IsSome(p.broadcast),
         LAMBDA o : InterfaceBroadcast(self, o, Some(Unwrap(p.broadcast)))), LAMBDA r5 :
  With(InitStep(r5, p.up,
         LAMBDA o : InterfaceFlags(self, o, Some(BitOr16(IFF_UP, IFF_RUNNING)))), LAMBDA r6 :
    IF r6.ok THEN Ok(r6.os, None) ELSE Err(r6.os, r6.err)))))))

\* name_buf[..name_len - 1]
StripNul(name_buf, name_len) == SubSeq(name_buf, 1, name_len - 1)

OpenUtun(k, unit) ==
  With(SysOpen(k, "socket(PF_SYSTEM)", FALSE), LAMBDA s :
    IF s.ret < 0 THEN Err(s.os, "socket(PF_SYSTEM)")
    ELSE With(Logged(s.os, "CTLIOCGINFO", s.ret, None), LAMBDA i :
      IF Rejected(s.os, "CTLIOCGINFO")
        THEN Err(SysClose(Failing(i, "CTLIOCGINFO"), s.ret), "CTLIOCGINFO")
      ELSE With(SysConnect(i, s.ret, unit), LAMBDA c :
        IF c.ret < 0 THEN Err(SysClose(c.os, s.ret), "connect")
        ELSE With(SysGetIfName(c.os, s.ret), LAMBDA g :
          IF g.ret < 0 THEN Err(SysClose(g.os, s.ret), "getsockopt")
          ELSE Ok(g.os, [fd |-> s.ret, name |-> StripNul(g.name_buf, g.name_len)])))))

\* impl Drop for Interface
InterfaceDrop(self, k) == SysClose(k, self.socket)

----------------------------------------------------------------------------
(* TunIo: src/src/macos/io.rs *)

\* vec![0u8; n]
Zeros(n) == [j \in 1..n |-> 0]

\* the bytes an OS read of n bytes leaves in a scratch buffer
Filled(vec, data) == [j \in 1..Len(vec) |-> IF j <= Len(data) THEN data[j] ELSE vec[j]]

\* a recv that copies from the start of what was read, header included
TunIoRecvKeepsHeader(k, fd, buf) ==
  With(Zeros(Len(buf) + HeaderLen), LAMBDA vec0 :
  With(SysRead(k, fd, Len(vec0)), LAMBDA rd :
  With(Filled(vec0, rd.data), LAMBDA vec :
  With(rd.ret, LAMBDA n :
    IF n < 0 THEN [Err(rd.os, rd.errno) EXCEPT !.val = 0] @@ [buf |-> buf]
    ELSE IF n < HeaderLen THEN Ok(rd.os, 0) @@ [buf |-> buf]
    ELSE With(n - HeaderLen, LAMBDA data_size :
      Ok(rd.os, data_size) @@
        [buf |-> [j \in 1..Len(buf) |-> IF j <= data_size THEN vec[j] ELSE buf[j]]])))))

\* TunIo::recv(&self, buf): the result, with val the byte count and buf the
\* caller's buffer as recv leaves it
TunIoRecv(k, fd, buf) ==
  With(Zeros(Len(buf) + HeaderLen), LAMBDA vec0 :
  With(SysRead(k, fd, Len(vec0)), LAMBDA rd :
  With(Filled(vec0, rd.data), LAMBDA vec :
  With(rd.ret, LAMBDA n :
    IF n < 0 THEN [Err(rd.os, rd.errno) EXCEPT !.val = 0] @@ [buf |-> buf]
    ELSE IF n < HeaderLen THEN Ok(rd.os, 0) @@ [buf |-> buf]
    ELSE With(n - HeaderLen, LAMBDA data_size :
      Ok(rd.os, data_size) @@
        [buf |-> [j \in 1..Len(buf) |->
                    IF j <= data_size THEN vec[HeaderLen + j] ELSE buf[j]]])))))

\* a send that writes the payload with no header before it
TunIoSendNoHeader(k, fd, buf) ==
  With(SysWrite(k, fd, buf), LAMBDA w :
    IF w.ret < 0 THEN [Err(w.os, w.errno) EXCEPT !.val = 0] ELSE Ok(w.os, w.ret))

\* a send that reports the OS count, header included
TunIoSendCountsHeader(k, fd, buf) ==
  With(SysWrite(k, fd, <<0, 0, 0, 2>> \o buf), LAMBDA w :
    IF w.ret < 0 THEN [Err(w.os, w.errno) EXCEPT !.val = 0] ELSE Ok(w.os, w.ret))

\* TunIo::send(&self, buf)
TunIoSend(k, fd, buf) ==
  With(<<0, 0, 0, 2>> \o buf, LAMBDA vec :
  With(SysWrite(k, fd, vec), LAMBDA w :
  With(w.ret, LAMBDA n :
    IF n < 0 THEN [Err(w.os, w.errno) EXCEPT !.val = 0]
    ELSE IF n <= HeaderLen THEN Ok(w.os, 0)
    ELSE Ok(w.os, n - HeaderLen))))

RECURSIVE Extended(_, _)
\* for buf in bufs { data.extend_from_slice(buf) }
Extended(data, bufs) ==
  IF bufs = <<>> THEN data ELSE Extended(data \o Head(bufs), Tail(bufs))

\* TunIo::sendv(&self, bufs)
TunIoSendv(k, fd, bufs) ==
  With(Extended(<<0, 0, 0, 2>>, bufs), LAMBDA data :
  With(SysWrite(k, fd, data), LAMBDA w :
  With(w.ret, LAMBDA n :
    IF n < 0 THEN [Err(w.os, w.errno) EXCEPT !.val = 0]
    ELSE IF n <= HeaderLen THEN Ok(w.os, 0)
    ELSE Ok(w.os, n - HeaderLen))))

\* impl Write for TunIo: flush
TunIoFlush(k, fd, commit) ==
  With(SysFsync(k, fd, commit), LAMBDA s :
    IF s.ret < 0 THEN Err(s.os, s.errno) ELSE Ok(s.os, None))

\* a TunIo whose drop leaves the descriptor open
TunIoDropNoClose(k, fd) == k

\* impl Drop for TunIo
TunIoDrop(k, fd) == SysClose(k, fd)

----------------------------------------------------------------------------
(* Tun: src/src/tun.rs *)

StartsWith(str, prefix) ==
  Len(str) >= Len(prefix) /\ SubSeq(str, 1, Len(prefix)) = prefix

DigitValue(ch) == CHOOSE d \in 0..9 : DigitChars[d + 1] = ch
IsDigit(ch) == \E d \in 0..9 : DigitChars[d + 1] = ch

RECURSIVE DigitsValue(_)
DigitsValue(str) ==
  IF str = <<>> THEN 0
  ELSE 10 * DigitsValue(SubSeq(str, 1, Len(str) - 1)) + DigitValue(str[Len(str)])

\* str.parse::<i32>().ok(): an optional sign and at least one digit
ParseI32(str) ==
  LET signed == str # <<>> /\ str[1] \in {"+", "-"}
      digits == IF signed THEN Tail(str) ELSE str
  IN IF digits = <<>> \/ \E j \in 1..Len(digits) : ~IsDigit(digits[j]) THEN None
     ELSE IF signed /\ str[1] = "-" THEN Some(0 - DigitsValue(digits))
     ELSE Some(DigitsValue(digits))

\* the unit named by params.name, when it has the form utun<N>
SpecifiedUnit(p) ==
  IF IsSome(p.name)
    THEN IF StartsWith(Unwrap(p.name), <<"u", "t", "u", "n">>)
           THEN ParseI32(SubSeq(Unwrap(p.name), 5, Len(Unwrap(p.name))))
           ELSE None
    ELSE None

\* Interface::new(fds, &name, params.flags)? ; iface.init(params)? ; Ok(iface)
\* An Interface that init fails on is dropped as the error is returned.
NewAndInit(k, fds, name, p) ==
  With(InterfaceNew(k, fds, name, p.flags), LAMBDA n :
  With(InterfaceInit(n.val, n.os, p), LAMBDA r :
    IF r.ok THEN Ok(r.os, n.val) ELSE Err(InterfaceDrop(n.val, r.os), r.err)))

RECURSIVE ScanUnits(_, _, _)
\* a scan that goes one unit beyond its range
ScanUnitsOneMore(k, p, i) ==
  IF i > ScanEnd THEN Err(k, "NotFound")
  ELSE With(OpenUtun(k, i), LAMBDA o :
    IF ~o.ok THEN ScanUnits(o.os, p, i + 1)
    ELSE With(SysGetFl(o.os, o.val.fd), LAMBDA g :
      IF g.ret < 0 THEN Err(g.os, "F_GETFL")
      ELSE With(SysSetFl(g.os, o.val.fd, BitOr16(g.ret, O_NONBLOCK)), LAMBDA st :
        IF st.ret < 0 THEN Err(st.os, "F_SETFL")
        ELSE NewAndInit(st.os, <<o.val.fd>>, o.val.name, p))))

\* for i in 0..16 { match Interface::open_utun(i) ... }
ScanUnits(k, p, i) ==
  IF i >= ScanEnd THEN Err(k, "NotFound")
  ELSE With(OpenUtun(k, i), LAMBDA o :
    IF ~o.ok THEN ScanUnits(o.os, p, i + 1)
    ELSE With(SysGetFl(o.os, o.val.fd), LAMBDA g :
      IF g.ret < 0 THEN Err(g.os, "F_GETFL")
      ELSE With(SysSetFl(g.os, o.val.fd, BitOr16(g.ret, O_NONBLOCK)), LAMBDA st :
        IF st.ret < 0 THEN Err(st.os, "F_SETFL")
        ELSE NewAndInit(st.os, <<o.val.fd>>, o.val.name, p))))

\* #[cfg(target_os = "macos")] fn allocate
AllocateMacos(k, p, nqueues) ==
  With(SpecifiedUnit(p), LAMBDA specified_unit :
    IF IsSome(specified_unit)
      THEN With(OpenUtun(k, Unwrap(specified_unit)), LAMBDA o :
             IF ~o.ok THEN Err(o.os, o.err)
             ELSE NewAndInit(o.os, <<o.val.fd>>, o.val.name, p))
      ELSE ScanUnits(k, p, 0))

----------------------------------------------------------------------------
(* The direct-device Interface, modelled from the specification *)

LinuxIfName == <<"t", "u", "n", "0">>

RECURSIVE LinuxAttach(_, _, _)
\* every device handle is bound to the one adapter
LinuxAttach(k, fds, j) ==
  IF j > Len(fds) THEN Ok(k, None)
  ELSE With(Logged(k, "TUNSETIFF", fds[j], None), LAMBDA k1 :
    IF Rejected(k, "TUNSETIFF") THEN Err(Failing(k1, "TUNSETIFF"), "TUNSETIFF")
    ELSE With([k1 EXCEPT !.unit = [@ EXCEPT ![fds[j]] = 0]], LAMBDA k2 :
           LinuxAttach(k2, fds, j + 1)))

LinuxInterfaceNew(k, fds, name, flags) ==
  With(LinuxAttach(k, fds, 1), LAMBDA a :
    IF ~a.ok THEN Err(a.os, a.err)
    ELSE With(SysOpen(a.os, "socket", FALSE), LAMBDA s :
           Ok(s.os, [fds |-> fds, socket |-> s.ret, name |-> LinuxIfName])))

\* the broadcast address is a kernel value of the direct-device adapter
LinuxInterfaceBroadcast(self, k, broadcast) ==
  AddrAccessor(self, k, broadcast, "broadcast", "SIOCSIFBRDADDR", "SIOCGIFBRDADDR")

LinuxInterfaceInit(self, k, p) ==
  With(InitStep(Ok(k, None), IsSome(p.mtu),
         LAMBDA o : InterfaceMtu(self, o, Some(Unwrap(p.mtu)))), LAMBDA r1 :
  With(InitStep(r1, IsSome(p.address),
         LAMBDA o : InterfaceAddress(self, o, Some(Unwrap(p.address)))), LAMBDA r2 :
  With(InitStep(r2, IsSome(p.netmask),
         LAMBDA o : InterfaceNetmask(self, o, Some(Unwrap(p.netmask)))), LAMBDA r3 :
  With(InitStep(r3, IsSome(p.destination),
         LAMBDA o : InterfaceDestination(self, o, Some(Unwrap(p.destination)))), LAMBDA r4 :
  With(InitStep(r4, IsSome(p.broadcast),
         LAMBDA o : LinuxInterfaceBroadcast(self, o, Some(Unwrap(p.broadcast)))), LAMBDA r5 :
  With(InitStep(r5, p.up,
         LAMBDA o : InterfaceFlags(self, o, Some(BitOr16(IFF_UP, IFF_RUNNING)))), LAMBDA r6 :
    IF r6.ok THEN Ok(r6.os, None) ELSE Err(r6.os, r6.err)))))))

\* the direct-device variant releases its control socket and its device
\* handles as the control-socket variant does
LinuxInterfaceDrop(self, k) == SysClose(k, self.socket)
LinuxTunIoDrop(k, fd) == SysClose(k, fd)

----------------------------------------------------------------------------
(* Tun: allocation on the direct-device variant, construction, teardown *)

\* drop of the platform's Interface
DropInterface(self, k) ==
  IF platform = "macos" THEN InterfaceDrop(self, k) ELSE LinuxInterfaceDrop(self, k)

\* drop of the platform's TunIo
DropTunIo(k, fd) ==
  IF platform = "macos" THEN TunIoDrop(k, fd) ELSE LinuxTunIoDrop(k, fd)

RECURSIVE LinuxOpenQueues(_, _, _)
\* (0..queues).map(|_| open(TUN, O_RDWR | O_NONBLOCK)).collect::<Result<Vec<_>>>()
LinuxOpenQueues(k, n, fds) ==
  IF n = 0 THEN Ok(k, fds)
  ELSE With(SysOpen(k, "open(/dev/net/tun)", TRUE), LAMBDA o :
    IF o.ret < 0 THEN Err(o.os, "open(/dev/net/tun)")
    ELSE With(Append(fds, o.ret), LAMBDA fds1 : LinuxOpenQueues(o.os, n - 1, fds1)))

\* #[cfg(target_os = "linux")] fn allocate
AllocateLinux(k, p, nqueues) ==
  With(LinuxOpenQueues(k, nqueues, <<>>), LAMBDA fds :
    IF ~fds.ok THEN Err(fds.os, fds.err)
    ELSE With(LinuxInterfaceNew(fds.os, fds.val, p.name, p.flags), LAMBDA n :
      IF ~n.ok THEN Err(n.os, n.err)
      ELSE With(LinuxInterfaceInit(n.val, n.os, p), LAMBDA r :
        IF ~r.ok THEN Err(LinuxInterfaceDrop(n.val, r.os), r.err)
        ELSE Ok(r.os, n.val))))

Allocate(k, p, nqueues) ==
  IF platform = "macos" THEN AllocateMacos(k, p, nqueues) ELSE AllocateLinux(k, p, nqueues)

\* AsyncFd::new(inner): registers inner's descriptor with the reactor; on
\* failure inner is dropped
AsyncFdNew(k, fd) ==
  With(Logged(k, "register", fd, None), LAMBDA k1 :
    IF fd \notin k1.open \/ Rejected(k, "register")
      THEN Err(DropTunIo(Failing(k1, "register"), fd), "register")
      ELSE Ok(k1, fd))

\* an owner count whose first release drops the Interface
DropArcFirstOwner(a, self) ==
  [os |-> IF self.socket \in a.os.open THEN DropInterface(self, a.os) ELSE a.os,
   arc |-> a.arc - 1]

\* drop of an Arc<Interface>: the Interface is dropped with the last one.
\* a is [os, arc], the kernel and the strong count.
DropArc(a, self) ==
  [os |-> IF a.arc = 1 THEN DropInterface(self, a.os) ELSE a.os, arc |-> a.arc - 1]

\* drop of one Tun { iface: Arc<Interface>, io: AsyncFd<TunIo> }: the fields
\* in declaration order
DropTunFields(a, self, fd) ==
  With(DropArc(a, self), LAMBDA a1 : [os |-> DropTunIo(a1.os, fd), arc |-> a1.arc])

RECURSIVE DropTuns(_, _, _, _)
\* drop of a Vec<Tun>, first element first
DropTuns(a, self, fds, j) ==
  IF j > Len(fds) THEN a
  ELSE With(DropTunFields(a, self, fds[j]), LAMBDA a1 : DropTuns(a1, self, fds, j + 1))

RECURSIVE WrapQueues(_, _, _, _)
\* for &fd in iface.files() { tuns.push(Self { iface: iface.clone(), io: AsyncFd::new(..)? }) }
\* made lists the descriptors wrapped so far; the local Arc counts one, and
\* the clone made for the handle under construction another.
WrapQueues(k, self, made, j) ==
  IF j > Len(self.fds)
    THEN With(DropArc([os |-> k, arc |-> Len(made) + 1], self), LAMBDA a :
           [os |-> a.os, ok |-> TRUE, err |-> "none", arc |-> a.arc, tuns |-> made])
    ELSE With(AsyncFdNew(k, self.fds[j]), LAMBDA r :
      IF r.ok
        THEN With(Append(made, self.fds[j]), LAMBDA made1 :
               WrapQueues(r.os, self, made1, j + 1))
        ELSE With(DropArc([os |-> r.os, arc |-> Len(made) + 2], self), LAMBDA a1 :
             With(DropArc(a1, self), LAMBDA a2 :
             With(DropTuns(a2, self, made, 1), LAMBDA a3 :
               [os |-> a3.os, ok |-> FALSE, err |-> r.err, arc |-> a3.arc,
                tuns |-> <<>>]))))

NotConstructed(k, err, self) ==
  [os |-> k, ok |-> FALSE, err |-> err, arc |-> 0, tuns |-> <<>>, iface |-> self]

\* Tun::new_mq
TunNewMq(k, p, nqueues) ==
  With(Allocate(k, p, nqueues), LAMBDA a :
    IF ~a.ok THEN NotConstructed(a.os, a.err, NoIface)
    ELSE With(WrapQueues(a.os, a.val, <<>>, 1), LAMBDA w :
           [os |-> w.os, ok |-> w.ok, err |-> w.err, arc |-> w.arc, tuns |-> w.tuns,
            iface |-> a.val]))

\* Tun::new
TunNew(k, p) ==
  With(Allocate(k, p, 1), LAMBDA a :
    IF ~a.ok THEN NotConstructed(a.os, a.err, NoIface)
    ELSE With(AsyncFdNew(a.os, a.val.fds[1]), LAMBDA r :
      IF ~r.ok
        THEN NotConstructed(DropArc([os |-> r.os, arc |-> 1], a.val).os, r.err, a.val)
        ELSE [os |-> r.os, ok |-> TRUE, err |-> "none", arc |-> 1,
              tuns |-> <<a.val.fds[1]>>, iface |-> a.val]))

----------------------------------------------------------------------------
(* Configurations and initial states *)

NameUtun1 == <<"u", "t", "u", "n", "1">>
NameUtun == <<"u", "t", "u", "n">>
NameTun0 == <<"t", "u", "n", "0">>
\* the names a caller may request on the control-socket variant
MacNames == {None, Some(<<>>), Some(NameUtun1), Some(NameUtun), Some(NameTun0)}

\* the configuration of the concrete scenario, and a second value per field
ScenarioMtu == 1350
ScenarioAddress == <<10, 0, 0, 1>>
ScenarioDestination == <<10, 1, 0, 1>>
ScenarioNetmask == <<255, 255, 255, 0>>
ScenarioBroadcast == <<10, 0, 0, 255>>
OtherMtus == {1400}
OtherAddress == <<192, 168, 7, 9>>
OtherNetmask == <<255, 255, 0, 0>>
\* flag words the kernel may hold for a fresh adapter: none, or
\* IFF_POINTOPOINT | IFF_MULTICAST (32784)
FreshFlags == {0, 32784}
\* a flag word with a bit outside IFF_UP | IFF_RUNNING
OtherFlags == {256}

ParamsOf(name, mtu, address, netmask, destination, broadcast, up) ==
  [name |-> name, mtu |-> mtu, address |-> address, netmask |-> netmask,
   destination |-> destination, broadcast |-> broadcast, up |-> up, flags |-> 0]

\* every combination of present and absent parameters
AllParams(names) ==
  {ParamsOf(n, m, a, nm, d, b, u) :
     n \in names, m \in {None, Some(ScenarioMtu)}, a \in {None, Some(ScenarioAddress)},
     nm \in {None, Some(ScenarioNetmask)}, d \in {None, Some(ScenarioDestination)},
     b \in {None, Some(ScenarioBroadcast)}, u \in BOOLEAN}

\* the scenario's configuration, and the empty one
ScenarioParams ==
  {ParamsOf(None, Some(ScenarioMtu), Some(ScenarioAddress), Some(ScenarioNetmask),
            Some(ScenarioDestination), Some(ScenarioBroadcast), TRUE),
   ParamsOf(None, None, None, None, None, None, FALSE)}

\* the kernel before the program has made a call
FreshOs(busy, flags) ==
  [open |-> {}, nb |-> {}, unit |-> [fd \in FdNums |-> -1],
   closes |-> [fd \in FdNums |-> 0], ebadf |-> [fd \in FdNums \cup {-1} |-> 0],
   ad |-> [mtu |-> 1500, address |-> Unset, netmask |-> Unset, destination |-> Unset,
           broadcast |-> Unset, flags |-> flags],
   rx |-> <<>>, tx |-> None, wlimit |-> None,
   busy |-> busy, f |-> {}, nth |-> 1, sys |-> <<>>, calls |-> <<>>, failed |-> <<>>]

\* dev is the device as the operation found it, counts the counts of the
\* sends a send_all made
NoRet == [op |-> "none", h |-> 0, arg |-> None, ok |-> TRUE, val |-> None, err |-> "none",
          pre |-> None, buf |-> <<>>, dev |-> None, counts |-> <<>>]
\* a task slot with no operation in progress
NoTask == [op |-> "none", h |-> 0, st |-> "idle", arg |-> None, rem |-> <<>>,
           counts |-> <<>>, last |-> "none"]
\* the fields with a set/get accessor pair
Fields == {"mtu", "address", "netmask", "destination"}
\* sent is the payload of the latest send the device took whole, echo the
\* payload whose frame heads the device queue, got the payload whose frame
\* the latest receive read, dropped the operation of the future dropped since
\* the latest return, seen the accessor query answered before the latest one
NoHist ==
  [fbase |-> None, lastset |-> [m \in Fields |-> None], closes0 |-> None, ebadf0 |-> None,
   sent |-> None, echo |-> None, got |-> None, dropped |-> None, seen |-> None]

RECURSIVE Remember(_, _, _)
\* hist after the accessor calls of one operation: lastset[m] is the value of
\* the latest successful set of field m, fbase the flags found and the flags
\* given at the latest successful flags(Some(F))
Remember(h, calls, flagsBefore) ==
  IF calls = <<>> THEN h
  ELSE With(Head(calls), LAMBDA c :
    With(IF ~c.ok \/ ~IsSome(c.arg) THEN h
         ELSE IF c.m \in Fields
           THEN [h EXCEPT !.lastset = [@ EXCEPT ![c.m] = c.arg]]
         ELSE IF c.m = "flags"
           THEN [h EXCEPT !.fbase = Some([c |-> flagsBefore, f |-> Unwrap(c.arg)])]
         ELSE h,
      LAMBDA h1 : Remember(h1, Tail(calls), flagsBefore)))

\* the state after the builder has collected a configuration
InitWith(platforms, macParams, linuxParams, busySets, freshFlags) ==
  /\ platform \in platforms
  /\ params \in (IF platform = "macos" THEN macParams ELSE linuxParams)
  /\ queues \in 1..MaxQueues
  /\ \E busy \in busySets, fl \in freshFlags : os = FreshOs(busy, fl)
  /\ pc = "new"
  /\ iface = NoIface
  /\ arc = 0
  /\ tuns = <<>>
  /\ ret = NoRet
  /\ hist = NoHist
  /\ tasks = [t \in 1..MaxTasks |-> NoTask]

\* the first b units are held by other processes
BusySets == {0..(b - 1) : b \in {0, MaxBusy}}

Init ==
  InitWith({"macos", "linux"}, AllParams(MacNames), ScenarioParams, BusySets, {32784})

----------------------------------------------------------------------------
(* Operations *)

\* the OS calls an operation can see rejected
AllocCalls ==
  {"socket(PF_SYSTEM)", "CTLIOCGINFO", "connect", "getsockopt", "F_GETFL", "F_SETFL",
   "socket", "SIOCSIFMTU", "SIOCSIFADDR", "SIOCSIFNETMASK", "SIOCSIFDSTADDR",
   "SIOCSIFBRDADDR", "SIOCGIFFLAGS", "SIOCSIFFLAGS", "open(/dev/net/tun)", "TUNSETIFF",
   "register"}

\* the calls an allocation issues once per queue
PerQueueCalls == {"open(/dev/net/tun)", "TUNSETIFF", "register"}
\* the issue from which on a rejected call is rejected
NthChoices(f) == IF f \cap PerQueueCalls # {} THEN 1..MaxQueues ELSE {1}

\* the kernel as an operation finds it: an empty call log and the calls the
\* environment rejects during it
Entering(k, f, nth) ==
  [k EXCEPT !.f = f, !.nth = nth, !.sys = <<>>, !.calls = <<>>, !.failed = <<>>]
\* the kernel as an operation leaves it
Leaving(k) == [k EXCEPT !.f = {}, !.nth = 1, !.wlimit = None]

\* a Queue Handle: its descriptor, the readiness its AsyncFd holds (rd, wr)
\* and the events of the descriptor the reactor has not seen yet (rev, wev);
\* a device is writable when it is registered
Handles(fds) ==
  [j \in 1..Len(fds) |->
     [fd |-> fds[j], alive |-> TRUE, rd |-> FALSE, wr |-> FALSE, rev |-> FALSE, wev |-> TRUE]]

\* the construction result r becomes the program state
Constructed(op, r) ==
  /\ os' = Leaving(r.os)
  /\ pc' = IF r.ok THEN "live" ELSE "failed"
  /\ iface' = r.iface
  /\ arc' = r.arc
  /\ tuns' = Handles(r.tuns)
  /\ ret' = [NoRet EXCEPT !.op = op, !.ok = r.ok, !.err = r.err, !.pre = Some(os.ad)]
  /\ hist' = [Remember(hist, r.os.calls, os.ad.flags)
                EXCEPT !.closes0 = Some(r.os.closes), !.ebadf0 = Some(r.os.ebadf)]
  /\ UNCHANGED <<platform, params, queues, tasks>>

\* TunBuilder::try_build -> Tun::new(params)
New ==
  /\ pc = "new"
  /\ \E f \in {{}} \cup {{c} : c \in AllocCalls} :
       \E k \in {Entering(os, f, 1)} :
         \E r \in {TunNew(k, params)} : Constructed("new", r)

\* TunBuilder::try_build_mq(queues) -> Tun::new_mq(params, queues)
NewMq ==
  /\ pc = "new"
  /\ \E f \in {{}} \cup {{c} : c \in AllocCalls} : \E nth \in NthChoices(f) :
       \E k \in {Entering(os, f, nth)} :
         \E r \in {TunNewMq(k, params, queues)} : Constructed("new_mq", r)

\* drop(tuns[h])
DropTun(h) ==
  /\ pc = "live"
  /\ h \in 1..Len(tuns)
  /\ tuns[h].alive
  /\ \A t \in DOMAIN tasks : tasks[t].h # h
  /\ \E a \in {DropTunFields([os |-> Entering(os, {}, 1), arc |-> arc], iface, tuns[h].fd)} :
        /\ os' = Leaving(a.os)
        /\ arc' = a.arc
        /\ tuns' = [tuns EXCEPT ![h] = [@ EXCEPT !.alive = FALSE]]
        /\ ret' = [NoRet EXCEPT !.op = "drop", !.h = h, !.pre = Some(os.ad)]
  /\ UNCHANGED <<platform, params, queues, pc, iface, hist, tasks>>

\* the result r of an Interface accessor, called through Queue Handle h,
\* becomes the program state
Accessed(op, h, arg, r) ==
  /\ os' = Leaving(r.os)
  /\ ret' = [NoRet EXCEPT !.op = op, !.h = h, !.arg = arg, !.ok = r.ok, !.val = r.val,
                          !.err = r.err, !.pre = Some(os.ad)]
  /\ hist' = Remember(hist, <<r.os.calls[Len(r.os.calls)]>>, os.ad.flags)
  /\ UNCHANGED <<platform, params, queues, pc, iface, arc, tuns, tasks>>

\* an accessor can be called through a Queue Handle that is alive; the
\* accessors of the direct-device variant are not part of the sources
CanAccess(h) == pc = "live" /\ platform = "macos" /\ h \in 1..Len(tuns) /\ tuns[h].alive

\* the sets of calls the environment may reject during an accessor
Rejecting(calls) == SUBSET calls

\* tuns[h].mtu() and Interface::mtu(Some(v))
CallMtu(h) ==
  /\ CanAccess(h)
  /\ \E arg \in {None} \cup {Some(v) : v \in OtherMtus}, f \in Rejecting({"SIOCSIFMTU", "SIOCGIFMTU"}) :
       \E r \in {InterfaceMtu(iface, Entering(os, f, 1), arg)} : Accessed("mtu", h, arg, r)

\* tuns[h].address() and Interface::address(Some(v))
CallAddress(h) ==
  /\ CanAccess(h)
  /\ \E arg \in {None, Some(OtherAddress)}, f \in Rejecting({"SIOCSIFADDR", "SIOCGIFADDR"}) :
       \E r \in {InterfaceAddress(iface, Entering(os, f, 1), arg)} :
         Accessed("address", h, arg, r)

\* tuns[h].netmask() and Interface::netmask(Some(v))
CallNetmask(h) ==
  /\ CanAccess(h)
  /\ \E arg \in {None, Some(OtherNetmask)},
        f \in Rejecting({"SIOCSIFNETMASK", "SIOCGIFNETMASK"}) :
       \E r \in {InterfaceNetmask(iface, Entering(os, f, 1), arg)} :
         Accessed("netmask", h, arg, r)

\* tuns[h].destination() and Interface::destination(Some(v))
CallDestination(h) ==
  /\ CanAccess(h)
  /\ \E arg \in {None, Some(OtherAddress)},
        f \in Rejecting({"SIOCSIFDSTADDR", "SIOCGIFDSTADDR"}) :
       \E r \in {InterfaceDestination(iface, Entering(os, f, 1), arg)} :
         Accessed("destination", h, arg, r)

\* tuns[h].broadcast() and Interface::broadcast(Some(v))
CallBroadcast(h) ==
  /\ CanAccess(h)
  /\ \E arg \in {None, Some(ScenarioBroadcast)},
        f \in Rejecting({"SIOCGIFADDR", "SIOCGIFNETMASK"}) :
       \E r \in {InterfaceBroadcast(iface, Entering(os, f, 1), arg)} :
         Accessed("broadcast", h, arg, r)

\* tuns[h].flags() and Interface::flags(Some(F))
CallFlags(h) ==
  /\ CanAccess(h)
  /\ \E arg \in {None, Some(BitOr16(IFF_UP, IFF_RUNNING))} \cup {Some(v) : v \in OtherFlags},
        f \in Rejecting({"SIOCGIFFLAGS", "SIOCSIFFLAGS"}) :
       \E r \in {InterfaceFlags(iface, Entering(os, f, 1), arg)} :
         Accessed("flags", h, arg, r)

Next ==
  \/ New
  \/ NewMq
  \/ \E h \in 1..MaxQueues : DropTun(h)

Spec == Init /\ [][Next]_vars

\* the accessors of an adapter allocated for the scenario's configuration
InitAccessors ==
  InitWith({"macos"}, ScenarioParams, ScenarioParams, {{}}, FreshFlags)

NextAccessors ==
  \/ NewMq
  \/ \E h \in 1..MaxQueues : CallMtu(h)
  \/ \E h \in 1..MaxQueues : CallAddress(h)
  \/ \E h \in 1..MaxQueues : CallNetmask(h)
  \/ \E h \in 1..MaxQueues : CallDestination(h)
  \/ \E h \in 1..MaxQueues : CallBroadcast(h)
  \/ \E h \in 1..MaxQueues : CallFlags(h)
  \/ \E h \in 1..MaxQueues : DropTun(h)

SpecAccessors == InitAccessors /\ [][NextAccessors]_vars

----------------------------------------------------------------------------
(* The data path *)

\* the protocol-family header the device puts before an IPv4 packet
Header == <<0, 0, 0, 2>>
\* a caller's buffer of n bytes before a receive
StaleBuf(n) == [j \in 1..n |-> 170]

\* the packet of n bytes, each byte telling its position
Payload(n) == [j \in 1..n |-> 5 + 2 * j]

\* what a read of the device may yield: a header and a payload of up to
\* MaxBuf + 1 bytes, or fewer bytes than a header
Datagrams ==
  {Header \o Payload(n) : n \in 0..(MaxBuf + 1)}
    \cup {SubSeq(Header, 1, n) : n \in 0..(HeaderLen - 1)}

\* the buffers a caller sends: the empty one and a packet
SendBufs == {Payload(n) : n \in {0, MaxBuf}}
\* the segment lists of a vectored send: none, and a packet cut in two, the
\* first segment empty or one byte
SendSegments ==
  {<<>>} \cup {<<SubSeq(Payload(MaxBuf), 1, j), SubSeq(Payload(MaxBuf), j + 1, MaxBuf)>> :
                 j \in {0, 1}}
\* how many bytes the device takes of a write: all, or a count around the
\* header length
ShortWrites == {None, Some(HeaderLen - 1), Some(HeaderLen), Some(HeaderLen + 1)}
\* what fsync finds for the descriptor
Commits == {"ok", "fails", "unsupported"}

\* the inner call of a data-path operation
RunIo(op, k, fd, arg) ==
  CASE op \in {"try_recv", "recv"} -> TunIoRecv(k, fd, arg)
    [] op \in {"try_send", "send"} -> TunIoSend(k, fd, arg) @@ [buf |-> <<>>]
    [] op \in {"try_send_vectored", "send_vectored"} ->
         TunIoSendv(k, fd, arg) @@ [buf |-> <<>>]
    [] op = "send_all" -> TunIoSend(k, fd, arg) @@ [buf |-> <<>>]
    [] op = "flush" -> [TunIoFlush(k, fd, arg) EXCEPT !.val = 0] @@ [buf |-> <<>>]

\* the readiness an operation waits for
Reads(op) == op \in {"try_recv", "recv"}

\* the device as an operation finds it
DevOf(k) == Some([rx |-> Len(k.rx), full |-> IsSome(k.tx)])

\* the payload of the frame the device took last, when a scalar send handed
\* it over and the device took the frame whole
SentOf(op, arg, r, h0) ==
  IF r.os.sys = <<>> \/ Unwrap(r.os.sys[1].arg).ret < 0 THEN h0.sent
  ELSE IF op \in {"try_send", "send"}
          /\ Unwrap(r.os.sys[1].arg).ret = Len(Unwrap(r.os.sys[1].arg).data)
    THEN Some(arg)
  ELSE None

\* hist after the inner call: a read that took the frame at the head of the
\* queue took the frame hist.echo describes
Heard(op, arg, r, k0, h0) ==
  IF op = "flush" THEN h0
  ELSE IF Reads(op)
    THEN IF Len(r.os.rx) < Len(k0.rx) THEN [h0 EXCEPT !.got = h0.echo, !.echo = None]
         ELSE [h0 EXCEPT !.got = None]
    ELSE [h0 EXCEPT !.sent = SentOf(op, arg, r, h0)]

\* the result r of the inner call becomes what the operation returns
Returned(op, h, arg, r) ==
  /\ os' = Leaving(r.os)
  /\ ret' = [NoRet EXCEPT !.op = op, !.h = h, !.arg = Some(arg), !.ok = r.ok, !.val = r.val,
                          !.err = r.err, !.pre = Some(os.ad), !.buf = r.buf,
                          !.dev = DevOf(os)]
  /\ hist' = Heard(op, arg, r, os, hist)

\* the network stack queues datagram d on the adapter; the descriptor turns
\* readable
Arrive(d) ==
  /\ pc = "live"
  /\ \E j \in 1..Len(tuns) : tuns[j].alive
  /\ Len(os.rx) < MaxRx
  /\ os' = [os EXCEPT !.rx = Append(@, d)]
  /\ tuns' = [j \in 1..Len(tuns) |-> IF tuns[j].alive THEN [tuns[j] EXCEPT !.rev = TRUE]
                                     ELSE tuns[j]]
  /\ hist' = IF os.rx = <<>> THEN [hist EXCEPT !.echo = None] ELSE hist
  /\ UNCHANGED <<platform, params, queues, pc, iface, arc, ret, tasks>>

\* the network stack queues a packet on the adapter
Deliver == \E d \in Datagrams : Arrive(d)

\* the handles after the device has sent its datagram on: the descriptor
\* turns writable
Writable(tn) ==
  [j \in 1..Len(tn) |-> IF tn[j].alive THEN [tn[j] EXCEPT !.wev = TRUE] ELSE tn[j]]

\* the device sends its datagram to a peer that returns it
Reflect ==
  /\ pc = "live"
  /\ \E j \in 1..Len(tuns) : tuns[j].alive
  /\ os.rx = <<>> /\ IsSome(os.tx)
  /\ os' = [os EXCEPT !.rx = <<Unwrap(os.tx)>>, !.tx = None]
  /\ tuns' = [j \in 1..Len(tuns) |->
                IF tuns[j].alive THEN [tuns[j] EXCEPT !.rev = TRUE, !.wev = TRUE]
                ELSE tuns[j]]
  /\ hist' = [hist EXCEPT !.echo = hist.sent, !.sent = None]
  /\ UNCHANGED <<platform, params, queues, pc, iface, arc, ret, tasks>>

\* the device sends its datagram into the network
Transmit ==
  /\ pc = "live" /\ IsSome(os.tx)
  /\ os' = [os EXCEPT !.tx = None]
  /\ tuns' = Writable(tuns)
  /\ hist' = [hist EXCEPT !.sent = None]
  /\ UNCHANGED <<platform, params, queues, pc, iface, arc, ret, tasks>>

CanUse(h) == pc = "live" /\ platform = "macos" /\ h \in 1..Len(tuns) /\ tuns[h].alive

\* a call that does not suspend: Tun::try_recv, try_send, try_send_vectored,
\* made by the one thread that makes such calls.  When the OS call does not
\* return, the thread stays in it.
TryCall(op, h, arg, f, lim) ==
  /\ CanUse(h)
  /\ \A t \in DOMAIN tasks : tasks[t].st # "blocked"
  /\ \E r \in {RunIo(op, [Entering(os, f, 1) EXCEPT !.wlimit = lim], tuns[h].fd, arg)} :
       IF r.err = "BLOCKS"
         THEN /\ \E t \in DOMAIN tasks :
                   /\ tasks[t].st = "idle"
                   /\ \A u \in 1..(t - 1) : tasks[u].st # "idle"
                   /\ tasks' = [tasks EXCEPT ![t] =
                                  [NoTask EXCEPT !.op = op, !.h = h, !.st = "blocked",
                                                 !.arg = Some(arg)]]
              /\ UNCHANGED <<os, ret, hist>>
         ELSE Returned(op, h, arg, r) /\ UNCHANGED tasks
  /\ UNCHANGED <<platform, params, queues, pc, iface, arc, tuns>>

\* tuns[h].try_recv(&mut buf), buf of n bytes
TryRecv(h, n) ==
  \E f \in Rejecting({"read"}) : TryCall("try_recv", h, StaleBuf(n), f, None)

\* tuns[h].try_send(buf)
TrySend(h) ==
  \E buf \in SendBufs, f \in Rejecting({"write"}), lim \in ShortWrites :
    TryCall("try_send", h, buf, f, lim)

\* tuns[h].try_send_vectored(bufs)
TrySendVectored(h) ==
  \E bufs \in SendSegments, f \in Rejecting({"write"}), lim \in ShortWrites :
    TryCall("try_send_vectored", h, bufs, f, lim)

\* the OS call a caller was blocked in returns
Unblock(t) ==
  /\ tasks[t].st = "blocked"
  /\ \E r \in {RunIo(tasks[t].op, Entering(os, {}, 1), tuns[tasks[t].h].fd,
                     Unwrap(tasks[t].arg))} :
       /\ r.err # "BLOCKS"
       /\ Returned(tasks[t].op, tasks[t].h, Unwrap(tasks[t].arg), r)
  /\ tasks' = [tasks EXCEPT ![t] = NoTask]
  /\ UNCHANGED <<platform, params, queues, pc, iface, arc, tuns>>

\* the receive path of an adapter allocated with an empty configuration
InitIo ==
  InitWith({"macos"}, {ParamsOf(None, None, None, None, None, None, FALSE)},
           ScenarioParams, {{}}, {32784})

NextIo ==
  \/ NewMq
  \/ Deliver
  \/ \E h \in 1..MaxQueues, n \in 0..MaxBuf : TryRecv(h, n)
  \/ \E h \in 1..MaxQueues : DropTun(h)

SpecIo == InitIo /\ [][NextIo]_vars

\* the send path and the way back through a peer that returns every frame,
\* of an adapter allocated with an empty configuration or for a requested
\* unit
InitLoop ==
  /\ InitWith({"macos"},
              {ParamsOf(n, None, None, None, None, None, FALSE) : n \in {None, Some(NameUtun1)}},
              ScenarioParams, {{}}, {32784})
  /\ queues = 1

NextLoop ==
  \/ NewMq
  \/ Reflect
  \/ Transmit
  \/ \E h \in 1..MaxQueues, n \in {0, MaxBuf} : TryRecv(h, n)
  \/ \E h \in 1..MaxQueues : TrySend(h)
  \/ \E h \in 1..MaxQueues : TrySendVectored(h)
  \/ \E t \in 1..MaxTasks : Unblock(t)
  \/ \E h \in 1..MaxQueues : DropTun(h)

SpecLoop == InitLoop /\ [][NextLoop]_vars

----------------------------------------------------------------------------
(* The suspending operations.  A future waits at self.io.readable().await  *)
(* or self.io.writable().await until the AsyncFd of its Queue Handle holds *)
(* the readiness, then makes its attempt inside guard.try_io.              *)

\* the suspending operations that make one attempt
AwaitOps == {"recv", "send", "send_vectored"}

\* whether AsyncFd tn holds the readiness op waits for
Ready(tn, op) == IF Reads(op) THEN tn.rd ELSE tn.wr

\* the reactor hands the events of the descriptor of tuns[h] to its AsyncFd
Notify(h) ==
  /\ CanUse(h)
  /\ tuns[h].rev \/ tuns[h].wev
  /\ tuns' = [tuns EXCEPT ![h] = [@ EXCEPT !.rd = @ \/ tuns[h].rev, !.wr = @ \/ tuns[h].wev,
                                           !.rev = FALSE, !.wev = FALSE]]
  /\ UNCHANGED <<platform, params, queues, os, pc, iface, arc, ret, hist, tasks>>

\* a try_io that hands every result of the attempt to the caller
TryIoNeverRetries(r) == FALSE

\* guard.try_io(..): Err(_) => continue, when the attempt reports would-block
TryIoRetries(r) == r.err = "EAGAIN"

\* a would-block that clears the readiness of both directions
ClearedBothDirections(tn, h, op) ==
  [tn EXCEPT ![h] = [@ EXCEPT !.rd = FALSE, !.wr = FALSE]]

\* guard.try_io on would-block: the readiness the guard stands for is cleared
Cleared(tn, h, op) ==
  IF Reads(op) THEN [tn EXCEPT ![h] = [@ EXCEPT !.rd = FALSE]]
  ELSE [tn EXCEPT ![h] = [@ EXCEPT !.wr = FALSE]]

\* a dropped future that takes the readiness of its AsyncFd with it
CancelledClearsReadiness(tn, h, op) == Cleared(tn, h, op)

\* the handles after a future of op waiting on tuns[h] was dropped
Cancelled(tn, h, op) == tn

\* a loop that runs its body before it looks at the buffer
LoopEnteredAlways(remaining) == TRUE

\* Tun::send_all: while !remaining.is_empty()
LoopEntered(remaining) == remaining # <<>>

\* a split that loses the byte after the n sent
RestDropsOne(remaining, n) == SubSeq(remaining, n + 2, Len(remaining))

\* Tun::send_all: mem::take(&mut remaining).split_at(n).1
Rest(remaining, n) == SubSeq(remaining, n + 1, Len(remaining))

\* a loop that goes on after a send that accepted nothing
SendAllTurnNoWriteZero(remaining, r) ==
  IF ~r.ok THEN [done |-> TRUE, ok |-> FALSE, err |-> r.err, rem |-> remaining]
  ELSE With(Rest(remaining, r.val), LAMBDA rest :
    IF LoopEntered(rest) THEN [done |-> FALSE, ok |-> TRUE, err |-> "none", rem |-> rest]
    ELSE [done |-> TRUE, ok |-> TRUE, err |-> "none", rem |-> rest])

\* one turn of the loop of Tun::send_all, send(remaining) having returned r:
\* the loop returns (done) or goes on with rem
SendAllTurn(remaining, r) ==
  IF ~r.ok THEN [done |-> TRUE, ok |-> FALSE, err |-> r.err, rem |-> remaining]
  ELSE IF r.val = 0
    THEN [done |-> TRUE, ok |-> FALSE, err |-> "WriteZero", rem |-> remaining]
  ELSE With(Rest(remaining, r.val), LAMBDA rest :
    IF LoopEntered(rest) THEN [done |-> FALSE, ok |-> TRUE, err |-> "none", rem |-> rest]
    ELSE [done |-> TRUE, ok |-> TRUE, err |-> "none", rem |-> rest])

\* a future of op on tuns[h] is created and polled for the first time: the
\* caller has taken the result of the operation before, the log of OS calls
\* starts empty, and hist.dropped stays when the future dropped last was of
\* the same operation
Start(op, h, arg) ==
  /\ CanUse(h)
  /\ \A t \in DOMAIN tasks : tasks[t].st = "idle"
  /\ tasks' = [tasks EXCEPT ![1] = [NoTask EXCEPT !.op = op, !.h = h, !.st = "waiting",
                                                   !.arg = Some(arg),
                                                   !.rem = IF op = "send_all" THEN arg ELSE <<>>]]
  /\ os' = Leaving(Entering(os, {}, 1))
  /\ ret' = NoRet
  /\ hist' = [hist EXCEPT !.dropped = IF @ = Some(op) /\ ret.op = "none" THEN @ ELSE None]
  /\ UNCHANGED <<platform, params, queues, pc, iface, arc, tuns>>

\* tuns[h].recv(&mut buf).await, buf of n bytes
Recv(h, n) == Start("recv", h, StaleBuf(n))

\* tuns[h].send(buf).await
Send(h, buf) == Start("send", h, buf)

\* tuns[h].send_vectored(bufs).await
SendVectored(h, bufs) == Start("send_vectored", h, bufs)

\* tuns[h].flush().await; commit is what fsync will find for the descriptor
Flush(h, commit) == Start("flush", h, commit)

\* tuns[h].send_all(buf).await
SendAll(h, buf) ==
  IF LoopEntered(buf) THEN Start("send_all", h, buf)
  ELSE /\ CanUse(h)
       /\ \A t \in DOMAIN tasks : tasks[t].st = "idle"
       /\ os' = Leaving(Entering(os, {}, 1))
       /\ ret' = [NoRet EXCEPT !.op = "send_all", !.h = h, !.arg = Some(buf),
                               !.pre = Some(os.ad), !.dev = DevOf(os)]
       /\ hist' = [hist EXCEPT !.dropped = None]
       /\ UNCHANGED <<platform, params, queues, pc, iface, arc, tuns, tasks>>

\* the OS calls the environment may reject during an attempt of op; what
\* fsync does is the commit the flush was started with
IoCalls(op) ==
  IF Reads(op) THEN {"read"} ELSE IF op = "flush" THEN {} ELSE {"write"}

\* the attempt of task t came back with r and was not would-block
Settled(t, r) ==
  \E tk \in {tasks[t]} :
    IF tk.op # "send_all"
      THEN /\ Returned(tk.op, tk.h, Unwrap(tk.arg), r)
           /\ tasks' = [tasks EXCEPT ![t] = NoTask]
      ELSE \E turn \in {SendAllTurn(tk.rem, r)} :
             \E counts \in {IF r.ok THEN Append(tk.counts, r.val) ELSE tk.counts} :
               /\ os' = Leaving(r.os)
               /\ hist' = Heard(tk.op, tk.rem, r, os, hist)
               /\ IF turn.done
                    THEN /\ ret' = [NoRet EXCEPT !.op = tk.op, !.h = tk.h, !.arg = tk.arg,
                                                 !.ok = turn.ok, !.err = turn.err,
                                                 !.pre = Some(os.ad), !.dev = DevOf(os),
                                                 !.counts = counts]
                         /\ tasks' = [tasks EXCEPT ![t] = NoTask]
                    ELSE /\ ret' = ret
                         /\ tasks' = [tasks EXCEPT ![t] = [@ EXCEPT !.rem = turn.rem,
                                                                    !.counts = counts,
                                                                    !.last = "none"]]

\* the future of task t is polled while its AsyncFd holds the readiness: the
\* attempt inside guard.try_io
Attempt(t) ==
  /\ tasks[t].st = "waiting"
  /\ CanUse(tasks[t].h)
  /\ Ready(tuns[tasks[t].h], tasks[t].op)
  /\ \E f \in Rejecting(IoCalls(tasks[t].op)),
        lim \in (IF tasks[t].op = "send_all" THEN ShortWrites ELSE {None}) :
       \E r \in {RunIo(tasks[t].op, [Entering(os, f, 1) EXCEPT !.wlimit = lim],
                       tuns[tasks[t].h].fd,
                       IF tasks[t].op = "send_all" THEN tasks[t].rem
                       ELSE Unwrap(tasks[t].arg))} :
         IF r.err = "BLOCKS"
           THEN /\ tasks' = [tasks EXCEPT ![t] = [@ EXCEPT !.st = "blocked"]]
                /\ UNCHANGED <<os, ret, hist, tuns>>
         ELSE IF TryIoRetries(r)
           THEN /\ os' = Leaving(r.os)
                /\ tuns' = Cleared(tuns, tasks[t].h, tasks[t].op)
                /\ tasks' = [tasks EXCEPT ![t] = [@ EXCEPT !.last = "EAGAIN"]]
                /\ UNCHANGED <<ret, hist>>
         ELSE Settled(t, r) /\ UNCHANGED tuns
  /\ UNCHANGED <<platform, params, queues, pc, iface, arc>>

\* the future of task t is dropped where it waits
Cancel(t) ==
  /\ tasks[t].st = "waiting"
  /\ tuns' = Cancelled(tuns, tasks[t].h, tasks[t].op)
  /\ tasks' = [tasks EXCEPT ![t] = NoTask]
  /\ hist' = [hist EXCEPT !.dropped = Some(tasks[t].op)]
  /\ UNCHANGED <<platform, params, queues, os, pc, iface, arc, ret>>

\* the datagrams that arrive while futures wait: a packet that fills the
\* buffer, and less than a header
Arrivals == {Header \o Payload(MaxBuf), SubSeq(Header, 1, HeaderLen - 1)}

\* the suspending operations on the handle of an adapter allocated with an
\* empty configuration
InitAsync ==
  /\ InitWith({"macos"}, {ParamsOf(None, None, None, None, None, None, FALSE)},
              ScenarioParams, {{}}, {32784})
  /\ queues = 1

NextAsync ==
  \/ NewMq
  \/ \E d \in Arrivals : Arrive(d)
  \/ Transmit
  \/ \E h \in 1..MaxQueues : Notify(h)
  \/ \E h \in 1..MaxQueues : Recv(h, MaxBuf)
  \/ \E h \in 1..MaxQueues : Send(h, Payload(MaxBuf))
  \/ \E h \in 1..MaxQueues : SendVectored(h, <<Payload(1), <<>>>>)
  \/ \E h \in 1..MaxQueues, buf \in SendBufs : SendAll(h, buf)
  \/ \E h \in 1..MaxQueues, commit \in Commits : Flush(h, commit)
  \/ \E t \in 1..MaxTasks : Attempt(t)
  \/ \E t \in 1..MaxTasks : Cancel(t)
  \/ \E h \in 1..MaxQueues : DropTun(h)

SpecAsync == InitAsync /\ [][NextAsync]_vars

----------------------------------------------------------------------------
(* Tasks that use one Queue Handle at the same time.  recv and send take   *)
(* &self, so the futures of several tasks wait on the one AsyncFd of the   *)
(* handle and share the readiness it holds; each poll of a future is one   *)
(* step, and the polls of different tasks interleave freely.               *)

\* a task creates the future of op on tuns[h] and polls it for the first
\* time; it takes the first free slot
Spawn(t, op, h, arg) ==
  /\ CanUse(h)
  /\ tasks[t].st = "idle"
  /\ \A u \in 1..(t - 1) : tasks[u].st # "idle"
  /\ tasks' = [tasks EXCEPT ![t] = [NoTask EXCEPT !.op = op, !.h = h, !.st = "waiting",
                                                   !.arg = Some(arg)]]
  /\ UNCHANGED <<platform, params, queues, os, pc, iface, arc, tuns, ret, hist>>

\* a task calls tuns[h].recv(&mut buf).await, buf of n bytes
SpawnRecv(t, h, n) == Spawn(t, "recv", h, StaleBuf(n))

\* a task calls tuns[h].send(buf).await
SpawnSend(t, h, buf) == Spawn(t, "send", h, buf)

\* the datagrams that arrive while tasks race for them: packets
RacePackets == {Header \o Payload(MaxBuf)}

NextRace ==
  \/ NewMq
  \/ \E d \in RacePackets : Arrive(d)
  \/ Transmit
  \/ \E h \in 1..MaxQueues : Notify(h)
  \/ \E t \in 1..MaxTasks, h \in 1..MaxQueues : SpawnRecv(t, h, MaxBuf)
  \/ \E t \in 1..MaxTasks, h \in 1..MaxQueues : SpawnSend(t, h, Payload(MaxBuf))
  \/ \E t \in 1..MaxTasks : Attempt(t)
  \/ \E h \in 1..MaxQueues : DropTun(h)

SpecRace == InitAsync /\ [][NextRace]_vars

----------------------------------------------------------------------------
(* The accessors of Tun, called through the Queue Handles of one           *)
(* allocation on either variant.  Every Tun holds a clone of the one       *)
(* Arc<Interface>, and every accessor asks that Interface.                 *)

\* the accessors of Tun
Accessors == {"name", "mtu", "address", "destination", "broadcast", "netmask", "flags"}

\* accessors whose destination() asks for the address
TunGetDestinationIsAddress(m, self, k) ==
  CASE m = "name" -> Ok(k, self.name)
    [] m = "mtu" -> InterfaceMtu(self, k, None)
    [] m = "address" -> InterfaceAddress(self, k, None)
    [] m = "destination" -> InterfaceAddress(self, k, None)
    [] m = "broadcast" -> IF platform = "macos" THEN InterfaceBroadcast(self, k, None)
                          ELSE LinuxInterfaceBroadcast(self, k, None)
    [] m = "netmask" -> InterfaceNetmask(self, k, None)
    [] m = "flags" -> InterfaceFlags(self, k, None)

\* Tun::name, mtu, address, destination, broadcast, netmask, flags:
\* self.iface.m(None)
TunGet(m, self, k) ==
  CASE m = "name" -> Ok(k, self.name)
    [] m = "mtu" -> InterfaceMtu(self, k, None)
    [] m = "address" -> InterfaceAddress(self, k, None)
    [] m = "destination" -> InterfaceDestination(self, k, None)
    [] m = "broadcast" -> IF platform = "macos" THEN InterfaceBroadcast(self, k, None)
                          ELSE LinuxInterfaceBroadcast(self, k, None)
    [] m = "netmask" -> InterfaceNetmask(self, k, None)
    [] m = "flags" -> InterfaceFlags(self, k, None)

\* the get requests of the adapter
GetRequests ==
  {"SIOCGIFMTU", "SIOCGIFADDR", "SIOCGIFNETMASK", "SIOCGIFDSTADDR", "SIOCGIFBRDADDR",
   "SIOCGIFFLAGS"}

\* whether the latest operation was an accessor query that returned a value
\* and saw no OS call fail
Answered == ret.op \in Accessors /\ ret.arg = None /\ ret.ok /\ os.failed = <<>>

\* tuns[h].m()
Get(h, m) ==
  /\ pc = "live" /\ h \in 1..Len(tuns) /\ tuns[h].alive
  /\ \E f \in {{}, GetRequests} :
       \E r \in {TunGet(m, iface, Entering(os, f, 1))} :
         /\ os' = Leaving(r.os)
         /\ ret' = [NoRet EXCEPT !.op = m, !.h = h, !.ok = r.ok, !.val = r.val,
                                 !.err = r.err, !.pre = Some(os.ad)]
  /\ hist' = [hist EXCEPT !.seen = IF Answered
                                     THEN Some([m |-> ret.op, h |-> ret.h, val |-> ret.val])
                                     ELSE None]
  /\ UNCHANGED <<platform, params, queues, pc, iface, arc, tuns, tasks>>

\* the address or the destination of the adapter is set anew:
\* Interface::address(Some(v)), Interface::destination(Some(v))
Reassign(m) ==
  /\ pc = "live" /\ iface.socket \in os.open
  /\ m \in {"address", "destination"}
  /\ \E r \in {IF m = "address"
                  THEN InterfaceAddress(iface, Entering(os, {}, 1), Some(OtherAddress))
                  ELSE InterfaceDestination(iface, Entering(os, {}, 1), Some(OtherAddress))} :
       /\ os' = Leaving(r.os)
       /\ ret' = [NoRet EXCEPT !.op = m, !.arg = Some(OtherAddress), !.ok = r.ok,
                               !.val = r.val, !.err = r.err, !.pre = Some(os.ad)]
       /\ hist' = [Remember(hist, r.os.calls, os.ad.flags) EXCEPT !.seen = None]
  /\ UNCHANGED <<platform, params, queues, pc, iface, arc, tuns, tasks>>

\* an adapter allocated for the scenario's configuration or the empty one,
\* on either variant
InitShared ==
  InitWith({"macos", "linux"}, ScenarioParams, ScenarioParams, {{}}, {32784})

NextShared ==
  \/ NewMq
  \/ \E h \in 1..MaxQueues, m \in Accessors : Get(h, m)
  \/ \E m \in {"address", "destination"} : Reassign(m)
  \/ \E h \in 1..MaxQueues : DropTun(h)

SpecShared == InitShared /\ [][NextShared]_vars

----------------------------------------------------------------------------
(* Notions the claims are stated in *)

\* Tun::name: the name of the shared Interface
TunName(h) == iface.name

\* the Queue Handles not yet dropped
Alive == {j \in 1..Len(tuns) : tuns[j].alive}

\* the state a construction has just returned into
AfterConstruction == ret.op \in {"new", "new_mq"}

\* the accessor steps a configuration asks of configure, in the documented
\* order MTU, address, netmask, destination, broadcast, up-flags
StepIf(present, m, arg, call) ==
  IF present THEN <<[m |-> m, arg |-> arg, call |-> call]>> ELSE <<>>
RequestedSteps(p) ==
  StepIf(IsSome(p.mtu), "mtu", p.mtu, "SIOCSIFMTU")
  \o StepIf(IsSome(p.address), "address", p.address, "SIOCSIFADDR")
  \o StepIf(IsSome(p.netmask), "netmask", p.netmask, "SIOCSIFNETMASK")
  \o StepIf(IsSome(p.destination), "destination", p.destination, "SIOCSIFDSTADDR")
  \o StepIf(IsSome(p.broadcast), "broadcast", p.broadcast, "none")
  \o StepIf(p.up, "flags", Some(65), "SIOCSIFFLAGS")

\* the set requests among the OS calls of the current operation, in order
RECURSIVE SetCalls(_)
SetCalls(sys) ==
  IF sys = <<>> THEN <<>>
  ELSE IF SetField(Head(sys).call) # "none"
    THEN <<Head(sys).call>> \o SetCalls(Tail(sys))
    ELSE SetCalls(Tail(sys))

RECURSIVE StepSetCalls(_)
\* the set requests of a list of steps (a broadcast step has none)
StepSetCalls(steps) ==
  IF steps = <<>> THEN <<>>
  ELSE IF Head(steps).call # "none"
    THEN <<Head(steps).call>> \o StepSetCalls(Tail(steps))
    ELSE StepSetCalls(Tail(steps))

IsPrefix(a, b) == Len(a) <= Len(b) /\ SubSeq(b, 1, Len(a)) = a

----------------------------------------------------------------------------
(* C1: for every valid configuration with queue count n >= 1, Tun::new_mq  *)
(* returns exactly n Queue Handles, and name() is the same on all of them. *)
C1_NewMqReturnsNHandles ==
  (pc = "live" /\ ret.op = "new_mq") =>
    /\ Len(tuns) = queues
    /\ \A i, j \in 1..Len(tuns) : TunName(i) = TunName(j)

(* C2: every device handle of an Interface returned by a successful        *)
(* allocate on the control-socket variant is in non-blocking mode, whether *)
(* the unit was requested by name or found by scanning.                    *)
C2_HandlesNonBlocking ==
  (AfterConstruction /\ pc = "live" /\ platform = "macos") =>
    \A j \in 1..Len(iface.fds) : iface.fds[j] \in os.nb

(* C3: after a successful allocation, in whatever order the Queue Handles  *)
(* are dropped, the device handle of a dropped Queue Handle has been       *)
(* closed exactly once and no close has been issued on it when it was not  *)
(* open, and the device handle of a live Queue Handle is open and has not  *)
(* been closed.                                                            *)
C3_DeviceHandlesClosedOnce ==
  pc = "live" =>
    \A j \in 1..Len(tuns) :
      LET fd == tuns[j].fd
      IN /\ os.ebadf[fd] = Unwrap(hist.ebadf0)[fd]
         /\ tuns[j].alive =>
              fd \in os.open /\ os.closes[fd] = Unwrap(hist.closes0)[fd]
         /\ ~tuns[j].alive =>
              fd \notin os.open /\ os.closes[fd] = Unwrap(hist.closes0)[fd] + 1

\* two Queue Handles of one allocation, dropped last-first, both closed
C3_Witness ==
  /\ pc = "live" /\ Len(tuns) = 2 /\ Alive = {}
  /\ ret.op = "drop" /\ ret.h = 1
  /\ \A j \in 1..2 : tuns[j].fd \notin os.open

(* C4: the control socket of the Interface is closed exactly once, when    *)
(* the last Queue Handle that references the Interface is dropped: while a *)
(* Queue Handle of the allocation is alive the socket is open and has not  *)
(* been closed, also after other handles of the allocation were dropped.   *)
C4_ControlSocketLastOwnerCloses ==
  (pc = "live" /\ iface.socket \in FdNums) =>
    LET s == iface.socket
    IN /\ arc = Cardinality(Alive)
       /\ os.ebadf[s] = Unwrap(hist.ebadf0)[s]
       /\ Alive # {} => s \in os.open /\ os.closes[s] = Unwrap(hist.closes0)[s]
       /\ Alive = {} => s \notin os.open /\ os.closes[s] = Unwrap(hist.closes0)[s] + 1

\* one of two Queue Handles was dropped and the control socket is still open
C4_Witness ==
  /\ pc = "live" /\ Len(tuns) = 2 /\ Cardinality(Alive) = 1
  /\ ret.op = "drop"
  /\ iface.socket \in os.open

(* C5: configure (Interface::init) issues the accessor sets of the         *)
(* parameters present in the configuration in the order MTU, address,      *)
(* netmask, destination, broadcast, up-flags; a step is issued only after  *)
(* every requested step before it has succeeded, and a parameter that is   *)
(* absent issues no set, neither as an accessor call nor as an OS request. *)
C5_InitOrder ==
  (AfterConstruction /\ platform = "macos") =>
    LET want == RequestedSteps(params)
        got == os.calls
    IN /\ Len(got) <= Len(want)
       /\ \A j \in 1..Len(got) :
            /\ got[j].m = want[j].m
            /\ got[j].arg = want[j].arg
            /\ j < Len(got) => got[j].ok
       /\ IsPrefix(SetCalls(os.sys), StepSetCalls(want))
       /\ pc = "live" => Len(got) = Len(want) /\ \A j \in 1..Len(got) : got[j].ok

\* all six steps were requested and issued
C5_Witness ==
  /\ AfterConstruction /\ platform = "macos" /\ pc = "live"
  /\ Len(os.calls) = 6
  /\ SetCalls(os.sys) =
       <<"SIOCSIFMTU", "SIOCSIFADDR", "SIOCSIFNETMASK", "SIOCSIFDSTADDR", "SIOCSIFFLAGS">>

\* the adapter field a step writes and the value it leaves there
StepApplied(step, before, after) ==
  CASE step.m = "mtu" -> after.mtu = Unwrap(step.arg)
    [] step.m \in {"address", "netmask", "destination"} -> after[step.m] = Unwrap(step.arg)
    [] step.m = "broadcast" -> TRUE
    [] step.m = "flags" -> after.flags = BitOr16(before.flags, Unwrap(step.arg))

\* the adapter field of a step is as it was before configure
StepUntouched(step, before, after) ==
  step.m = "broadcast" \/ after[step.m] = before[step.m]

\* the OS requests an accessor step can fail on
StepErrors(m) ==
  CASE m = "mtu" -> {"SIOCSIFMTU"}
    [] m = "address" -> {"SIOCSIFADDR"}
    [] m = "netmask" -> {"SIOCSIFNETMASK"}
    [] m = "destination" -> {"SIOCSIFDSTADDR"}
    [] m = "broadcast" -> {}
    [] m = "flags" -> {"SIOCGIFFLAGS", "SIOCSIFFLAGS"}

(* C6: when a step of configure fails, configure returns that step's       *)
(* error, every step that succeeded before it remains applied on the       *)
(* adapter, and no step after the failing one is attempted.                *)
C6_InitFailFast ==
  (AfterConstruction /\ platform = "macos" /\ os.calls # <<>>
     /\ ~os.calls[Len(os.calls)].ok) =>
    LET want == RequestedSteps(params)
        n == Len(os.calls)
        before == Unwrap(ret.pre)
    IN /\ pc = "failed"
       /\ ret.err \in StepErrors(os.calls[n].m)
       /\ \A j \in 1..(n - 1) : os.calls[j].ok /\ StepApplied(want[j], before, os.ad)
       /\ \A j \in n..Len(want) : StepUntouched(want[j], before, os.ad)
       /\ \A j \in 1..Len(os.sys) :
            os.sys[j].call \in (UNION {StepErrors(want[i].m) : i \in (n + 1)..Len(want)})
              => os.sys[j].call \in StepErrors(want[n].m)

\* the netmask step failed after MTU and address were set: both stay applied
C6_Witness ==
  /\ AfterConstruction /\ platform = "macos" /\ pc = "failed"
  /\ Len(os.calls) = 3 /\ os.calls[3].m = "netmask" /\ ~os.calls[3].ok
  /\ ret.err = "SIOCSIFNETMASK"
  /\ os.ad.mtu = ScenarioMtu /\ os.ad.address = ScenarioAddress
  /\ IsSome(params.destination)

\* the positions of the bits set in a 16-bit word
Bits(w) == {b \in 0..15 : (w \div (2 ^ b)) % 2 = 1}

(* C7: flags(Some(F)) first reads the adapter's current flags C, writes    *)
(* C OR F (never F alone) and returns C OR F; a following flags(None)      *)
(* returns a value that has every bit of C and every bit of F.             *)
C7_FlagsOrCombined ==
  ret.op = "flags" =>
    /\ os.sys # <<>> /\ os.sys[1].call = "SIOCGIFFLAGS"
    /\ (IsSome(ret.arg) /\ ret.ok) =>
         LET C == Unwrap(ret.pre).flags
             F == Unwrap(ret.arg)
         IN /\ Len(os.sys) = 2
            /\ os.sys[2].call = "SIOCSIFFLAGS"
            /\ Bits(Unwrap(os.sys[2].arg)) = Bits(C) \cup Bits(F)
            /\ Bits(ret.val) = Bits(C) \cup Bits(F)
            /\ Bits(os.ad.flags) = Bits(C) \cup Bits(F)
    /\ (ret.arg = None /\ ret.ok /\ IsSome(hist.fbase)) =>
         /\ Len(os.sys) = 1
         /\ Bits(Unwrap(hist.fbase).c) \subseteq Bits(ret.val)
         /\ Bits(Unwrap(hist.fbase).f) \subseteq Bits(ret.val)

\* flags(None) after flags(Some(256)) on an adapter that had
\* IFF_POINTOPOINT | IFF_MULTICAST | IFF_UP | IFF_RUNNING
C7_Witness ==
  /\ ret.op = "flags" /\ ret.arg = None /\ ret.ok
  /\ hist.fbase = Some([c |-> 32849, f |-> 256])
  /\ ret.val = 33105

Bits8(o) == {b \in 0..7 : (o \div (2 ^ b)) % 2 = 1}

(* C9: on the control-socket variant broadcast(Some(v)) returns success    *)
(* with v, issues no OS call and changes no adapter state; broadcast(None) *)
(* returns address OR (NOT netmask) when the address get and the netmask   *)
(* get both succeed, and 255.255.255.255, never an error, when one fails.  *)
C9_Broadcast ==
  (ret.op = "broadcast" /\ platform = "macos") =>
    /\ ret.ok
    /\ os.ad = Unwrap(ret.pre)
    /\ IsSome(ret.arg) => ret.val = Unwrap(ret.arg) /\ os.sys = <<>>
    /\ ret.arg = None =>
         /\ Len(os.calls) = 3
         /\ os.calls[1].m = "address" /\ os.calls[1].arg = None
         /\ os.calls[2].m = "netmask" /\ os.calls[2].arg = None
         /\ (os.calls[1].ok /\ os.calls[2].ok) =>
              \A i \in 1..4 :
                Bits8(ret.val[i]) =
                  Bits8(os.calls[1].val[i]) \cup ((0..7) \ Bits8(os.calls[2].val[i]))
         /\ ~(os.calls[1].ok /\ os.calls[2].ok) => ret.val = <<255, 255, 255, 255>>

\* 10.0.0.1 with netmask 255.255.255.0 gives 10.0.0.255
C9_Witness ==
  /\ ret.op = "broadcast" /\ ret.arg = None /\ ret.ok
  /\ os.ad.address = ScenarioAddress /\ os.ad.netmask = ScenarioNetmask
  /\ ret.val = <<10, 0, 0, 255>>

(* C10: a receive into a caller buffer of k bytes issues one OS read of at *)
(* most k + 4 bytes; if the read yields n < 4 bytes the result is 0 bytes  *)
(* and not an error; otherwise the result is n - 4, the caller's buffer    *)
(* holds exactly bytes 4..n of what was read, and the result is at most k. *)
C10_RecvStripsHeader ==
  ret.op = "try_recv" =>
    LET k == Len(Unwrap(ret.arg))
        rd == Unwrap(os.sys[1].arg)
    IN /\ Len(os.sys) = 1 /\ os.sys[1].call = "read"
       /\ rd.count <= k + 4
       /\ rd.ret < 0 => ~ret.ok /\ ret.buf = Unwrap(ret.arg)
       /\ (0 <= rd.ret /\ rd.ret < 4) =>
            ret.ok /\ ret.val = 0 /\ ret.buf = Unwrap(ret.arg)
       /\ rd.ret >= 4 =>
            /\ ret.ok /\ ret.val = rd.ret - 4 /\ ret.val <= k
            /\ Len(ret.buf) = k
            /\ SubSeq(ret.buf, 1, ret.val) = SubSeq(rd.data, 5, rd.ret)
            /\ \A j \in (ret.val + 1)..k : ret.buf[j] = Unwrap(ret.arg)[j]

\* a packet of two payload bytes is received into a buffer of two bytes
C10_Witness ==
  /\ ret.op = "try_recv" /\ ret.ok /\ ret.val = 2
  /\ Unwrap(os.sys[1].arg).data = <<0, 0, 0, 2, 7, 9>>
  /\ ret.buf = <<7, 9>>

RECURSIVE Flat(_)
\* the segments of a vectored send, one after the other
Flat(bufs) == IF bufs = <<>> THEN <<>> ELSE Head(bufs) \o Flat(Tail(bufs))

\* the payload a send operation was given
PayloadOf(r) ==
  IF r.op \in {"try_send_vectored", "send_vectored"} THEN Flat(Unwrap(r.arg))
  ELSE Unwrap(r.arg)

(* C11: a scalar or vectored send issues exactly one OS write, of the      *)
(* marker 00 00 00 02 followed by the payload (the segments of a vectored  *)
(* send in order); the count returned is the OS count minus 4, 0 when the  *)
(* OS count is at most 4, and never more than the payload length.          *)
C11_SendPrependsHeader ==
  ret.op \in {"try_send", "try_send_vectored"} =>
    LET w == Unwrap(os.sys[1].arg)
    IN /\ Len(os.sys) = 1 /\ os.sys[1].call = "write"
       /\ w.data = <<0, 0, 0, 2>> \o PayloadOf(ret)
       /\ w.ret < 0 => ~ret.ok
       /\ w.ret >= 0 =>
            /\ ret.ok
            /\ ret.val = (IF w.ret <= 4 THEN 0 ELSE w.ret - 4)
            /\ ret.val <= Len(PayloadOf(ret))

\* a vectored send of two one-byte segments, taken whole by the device
C11_Witness ==
  /\ ret.op = "try_send_vectored" /\ ret.ok /\ ret.val = 2
  /\ Unwrap(ret.arg) = <<<<7>>, <<9>>>>
  /\ Unwrap(os.sys[1].arg).data = <<0, 0, 0, 2, 7, 9>>

(* C12: framer round trip: when send(P) was taken whole by the device and  *)
(* the peer returns that frame, a receive into a buffer of at least |P|    *)
(* bytes yields exactly P, and no header byte.                             *)
C12_FramerRoundTrip ==
  (Reads(ret.op) /\ IsSome(hist.got) /\ Len(Unwrap(ret.arg)) >= Len(Unwrap(hist.got))) =>
    /\ ret.ok
    /\ ret.val = Len(Unwrap(hist.got))
    /\ SubSeq(ret.buf, 1, ret.val) = Unwrap(hist.got)

\* the two bytes sent come back as the two bytes received
C12_Witness ==
  /\ Reads(ret.op) /\ hist.got = Some(<<7, 9>>)
  /\ ret.ok /\ ret.val = 2 /\ ret.buf = <<7, 9>>

RECURSIVE UnitsTried(_)
\* the units the connect calls of a log name, in the order of the calls
UnitsTried(sys) ==
  IF sys = <<>> THEN <<>>
  ELSE IF Head(sys).call = "connect"
    THEN <<Unwrap(Head(sys).arg)>> \o UnitsTried(Tail(sys))
  ELSE UnitsTried(Tail(sys))

\* the calls of open_utun
OpenCalls == {"socket(PF_SYSTEM)", "CTLIOCGINFO", "connect", "getsockopt"}
\* how many open_utun calls a log shows: each starts with socket(PF_SYSTEM)
OpensTried(k) == Count(k, "socket(PF_SYSTEM)")
\* how many open_utun calls of the operation failed
OpensFailed(k) == Cardinality({j \in 1..Len(k.failed) : k.failed[j] \in OpenCalls})

(* C17: with no unit requested, allocate on the control-socket variant     *)
(* opens units 0, 1, 2, .. in this order, at most the 16 units 0..15; it   *)
(* goes on to the next unit exactly when an open fails and uses the first  *)
(* unit that opens; when all 16 opens fail it returns NotFound.            *)
C17_ScanFirstFreeUnit ==
  (platform = "macos" /\ ret.op \in {"new", "new_mq"} /\ SpecifiedUnit(params) = None) =>
    LET units == UnitsTried(os.sys)
        tried == OpensTried(os)
        failed == OpensFailed(os)
    IN /\ tried <= 16 /\ tried >= 1
       /\ \A j \in 1..Len(units) : units[j] = j - 1
       /\ Len(units) \in {0, tried}
       /\ failed \in {tried - 1, tried}
       /\ failed = tried => tried = 16 /\ ~ret.ok /\ ret.err = "NotFound"
       /\ ret.err = "NotFound" => failed = 16
       /\ failed = tried - 1 =>
            /\ units[tried] = tried - 1
            /\ ret.ok => iface.name = <<"u", "t", "u", "n">> \o Decimal(tried - 1)

\* all sixteen units fail to connect, the last of them unit 15
C17_Witness ==
  /\ platform = "macos" /\ ret.op = "new" /\ SpecifiedUnit(params) = None
  /\ ~ret.ok /\ ret.err = "NotFound"
  /\ Len(UnitsTried(os.sys)) = 16 /\ UnitsTried(os.sys)[16] = 15

\* the OS call the latest attempt made, in kernel k
LastCall(k) == Unwrap(k.sys[1].arg)

\* what the attempt of task t, made in this step, must lead to
C13_AttemptOutcome(t) ==
  IF LastCall(os').errno = "EAGAIN"
    THEN /\ tasks'[t] = [tasks[t] EXCEPT !.last = "EAGAIN"]
         /\ ~Ready(tuns'[tasks[t].h], tasks[t].op)
         /\ ret' = ret
    ELSE /\ tasks'[t].st = "idle"
         /\ ret'.op = tasks[t].op
         /\ ret'.ok = (LastCall(os').ret >= 0)
         /\ ret'.err = LastCall(os').errno

(* C13: recv, send and send_vectored never return WouldBlock: an attempt   *)
(* that reports would-block leaves the operation waiting, its readiness    *)
(* cleared and nothing returned; any other outcome of an attempt, a byte   *)
(* count or another OS error, ends the operation at that attempt and is    *)
(* what the operation returns.                                             *)
C13_NoWouldBlockReturned ==
  /\ [](ret.op \in AwaitOps => ret.err # "EAGAIN" /\ LastCall(os).errno # "EAGAIN")
  /\ [][\A t \in 1..MaxTasks :
          (tasks[t].op \in AwaitOps /\ Attempt(t)) => C13_AttemptOutcome(t)]_vars

\* a recv found nothing to read behind a stale readiness and waits again
C13_Witness ==
  /\ tasks[1].op = "recv" /\ tasks[1].st = "waiting" /\ tasks[1].last = "EAGAIN"
  /\ LastCall(os).errno = "EAGAIN"
  /\ ~tuns[1].rd

(* C14: on every Queue Handle of a successful allocation try_recv,         *)
(* try_send and try_send_vectored do not block the caller: no caller is    *)
(* ever left inside the OS call, and with no packet pending (the device    *)
(* not accepting data) the call returns WouldBlock, or the error of a      *)
(* failed OS call, at once.                                                *)
C14_TryNeverBlocks ==
  /\ \A t \in DOMAIN tasks : tasks[t].st # "blocked"
  /\ (ret.op = "try_recv" /\ Unwrap(ret.dev).rx = 0) =>
        ~ret.ok /\ ret.err \in {"EAGAIN", "EIO"}
  /\ (ret.op \in {"try_send", "try_send_vectored"} /\ Unwrap(ret.dev).full) =>
        ~ret.ok /\ ret.err \in {"EAGAIN", "EIO"}

RECURSIVE Sum(_)
\* the bytes a sequence of sends accepted
Sum(counts) == IF counts = <<>> THEN 0 ELSE Head(counts) + Sum(Tail(counts))

\* what a send of task t, made in this step, must be and lead to
C15_SendOutcome(t) ==
  LET buf == Unwrap(tasks[t].arg)
      done == Sum(tasks[t].counts)
      w == LastCall(os')
      n == IF w.ret <= 4 THEN 0 ELSE w.ret - 4
  IN /\ w.data = <<0, 0, 0, 2>> \o SubSeq(buf, done + 1, Len(buf))
     /\ w.errno = "EAGAIN" => tasks'[t].st = "waiting" /\ tasks'[t].counts = tasks[t].counts
     /\ (w.ret < 0 /\ w.errno # "EAGAIN") =>
          /\ tasks'[t].st = "idle" /\ ~ret'.ok /\ ret'.err = w.errno
          /\ ret'.counts = tasks[t].counts
     /\ (w.ret >= 0 /\ n = 0) =>
          tasks'[t].st = "idle" /\ ~ret'.ok /\ ret'.err = "WriteZero"
     /\ (w.ret >= 0 /\ n > 0 /\ done + n < Len(buf)) =>
          tasks'[t].st = "waiting" /\ tasks'[t].counts = Append(tasks[t].counts, n)
     /\ (w.ret >= 0 /\ n > 0 /\ done + n >= Len(buf)) =>
          tasks'[t].st = "idle" /\ ret'.ok /\ ret'.counts = Append(tasks[t].counts, n)

(* C15: every send of send_all(buf) writes the suffix of buf the sends     *)
(* before it have not accepted; send_all returns success only when the     *)
(* counts of its sends, all positive, sum to |buf|; it returns WriteZero   *)
(* at the first send that returns 0 and the OS error of the first send     *)
(* that fails.                                                             *)
C15_SendAllLoop ==
  /\ [](ret.op = "send_all" =>
          /\ ret.ok => Sum(ret.counts) = Len(Unwrap(ret.arg))
          /\ \A j \in 1..(Len(ret.counts) - 1) : ret.counts[j] > 0
          /\ (ret.err = "WriteZero") = (ret.counts # <<>> /\ ret.counts[Len(ret.counts)] = 0)
          /\ ret.err \notin {"none", "WriteZero"} =>
               LastCall(os).ret < 0 /\ ret.err = LastCall(os).errno)
  /\ [][\A t \in 1..MaxTasks :
          (tasks[t].op = "send_all" /\ Attempt(t)) => C15_SendOutcome(t)]_vars

\* two bytes accepted one by one
C15_Witness ==
  /\ ret.op = "send_all" /\ ret.ok
  /\ ret.arg = Some(<<7, 9>>) /\ ret.counts = <<1, 1>>
  /\ LastCall(os).data = <<0, 0, 0, 2, 9>>

(* C16: send_all on an empty buffer returns success in the step it is      *)
(* called, whatever the writability of the device, leaves no future        *)
(* waiting and issues no OS write.                                         *)
C16_SendAllEmpty ==
  /\ []((ret.op = "send_all" /\ ret.arg = Some(<<>>)) =>
          ret.ok /\ ret.counts = <<>> /\ os.sys = <<>>)
  /\ [][\A h \in 1..MaxQueues :
          SendAll(h, <<>>) =>
            /\ ret'.op = "send_all" /\ ret'.ok
            /\ tasks' = tasks /\ tuns' = tuns
            /\ os'.tx = os.tx /\ os'.rx = os.rx]_vars

\* success on a device that holds a frame, with no write readiness
C16_Witness ==
  /\ ret.op = "send_all" /\ ret.arg = Some(<<>>) /\ ret.ok
  /\ Unwrap(ret.dev).full /\ ~tuns[1].wr /\ ~tuns[1].wev
  /\ os.sys = <<>>

\* no wakeup is lost on Queue Handle h: while a packet is queued its AsyncFd
\* holds read readiness or the reactor has the event to deliver, and while
\* the device accepts data the same goes for write readiness
C20_NoLostWakeup(h) ==
  /\ os.rx # <<>> => tuns[h].rd \/ tuns[h].rev
  /\ os.tx = None => tuns[h].wr \/ tuns[h].wev

(* C20: a pending recv or send future can be dropped wherever it waits: an *)
(* attempt that leaves the operation pending has taken no packet from the  *)
(* device and given it no bytes; the drop changes neither the device nor   *)
(* the readiness its AsyncFd holds nor anything returned; and at all       *)
(* times, before and after a drop, no wakeup is lost and a waiting         *)
(* operation whose readiness is held can make its attempt.                 *)
C20_CancelSafe ==
  /\ [](\A h \in 1..Len(tuns) : tuns[h].alive => C20_NoLostWakeup(h))
  /\ [](\A t \in 1..MaxTasks :
          (tasks[t].st = "waiting" /\ Ready(tuns[tasks[t].h], tasks[t].op)) =>
            ENABLED Attempt(t))
  /\ [][\A t \in 1..MaxTasks :
          /\ (tasks[t].op \in AwaitOps /\ Attempt(t) /\ tasks'[t].st = "waiting") =>
               os'.rx = os.rx /\ os'.tx = os.tx
          /\ Cancel(t) =>
               os'.rx = os.rx /\ os'.tx = os.tx /\ tuns' = tuns /\ ret' = ret]_vars

\* a recv future was dropped while its readiness was held, and the recv
\* after it received the packet
C20_Witness ==
  /\ hist.dropped = Some("recv")
  /\ ret.op = "recv" /\ ret.ok /\ ret.val = 2 /\ ret.buf = <<7, 9>>

(* C18: all errors are propagated: an operation during which an OS call    *)
(* failed returns an error (owner, group and persistence requests make no  *)
(* OS call).                                                               *)
C18_ErrorsPropagated ==
  (ret.op \notin {"none", "drop"} /\ os.failed # <<>>) => ~ret.ok

(* C19: flush on a Queue Handle whose descriptor has no commit operation   *)
(* returns success; flush returns an error only when the commit operation  *)
(* exists and fails.                                                       *)
C19_FlushWithoutCommitSucceeds ==
  ret.op = "flush" =>
    /\ ret.arg = Some("unsupported") => ret.ok
    /\ ~ret.ok => ret.arg = Some("fails")

\* the packet the read of this step took from the device came back from the
\* recv of task t, and of no other task
C21_TakenBy(t) ==
  /\ tasks[t].op = "recv" /\ tasks[t].st = "waiting"
  /\ tasks'[t] = NoTask
  /\ \A u \in 1..MaxTasks : u # t => tasks'[u] = tasks[u]
  /\ ret'.op = "recv" /\ ret'.ok
  /\ ret'.val = Len(Head(os.rx)) - 4
  /\ SubSeq(ret'.buf, 1, ret'.val) = SubSeq(Head(os.rx), 5, Len(Head(os.rx)))

\* the attempt of task t, made in this step, reported would-block: the task
\* waits on, nothing is returned, and the readiness of the other direction,
\* the device and the other tasks are as they were
C21_WouldBlock(t) ==
  /\ tasks'[t] = [tasks[t] EXCEPT !.last = "EAGAIN"]
  /\ \A u \in 1..MaxTasks : u # t => tasks'[u] = tasks[u]
  /\ ret' = ret
  /\ os'.rx = os.rx /\ os'.tx = os.tx
  /\ tuns'[tasks[t].h].rev = tuns[tasks[t].h].rev
  /\ tuns'[tasks[t].h].wev = tuns[tasks[t].h].wev
  /\ IF Reads(tasks[t].op)
       THEN ~tuns'[tasks[t].h].rd /\ tuns'[tasks[t].h].wr = tuns[tasks[t].h].wr
       ELSE ~tuns'[tasks[t].h].wr /\ tuns'[tasks[t].h].rd = tuns[tasks[t].h].rd

(* C21: with tasks calling recv and send on one Queue Handle at the same   *)
(* time, in any interleaving: a packet leaves the device only in the       *)
(* attempt of one recv, which returns it to that caller and to no other; a *)
(* recv whose attempt finds the packet gone waits on and returns nothing;  *)
(* a would-block of one direction leaves the readiness of the other        *)
(* direction alone, so that a send attempted while the device accepts data *)
(* completes, as does a recv attempted while a packet is queued; and the   *)
(* readiness for a queued packet or a free device is never lost.           *)
C21_ConcurrentRecvSend ==
  /\ [](\A h \in 1..Len(tuns) : tuns[h].alive =>
          /\ os.rx # <<>> => tuns[h].rd \/ tuns[h].rev
          /\ os.tx = None => tuns[h].wr \/ tuns[h].wev)
  /\ [](\A t \in 1..MaxTasks :
          (tasks[t].st = "waiting" /\ Ready(tuns[tasks[t].h], tasks[t].op)) =>
            ENABLED Attempt(t))
  /\ [][Len(os'.rx) < Len(os.rx) => \E t \in 1..MaxTasks : C21_TakenBy(t)]_vars
  /\ [][\A t \in 1..MaxTasks :
          Attempt(t) =>
            /\ LastCall(os').errno = "EAGAIN" => C21_WouldBlock(t)
            /\ (tasks[t].op = "send" /\ os.tx = None /\ LastCall(os').errno # "EIO") =>
                 ret'.op = "send" /\ ret'.ok /\ tasks'[t] = NoTask
            /\ (tasks[t].op = "recv" /\ os.rx # <<>> /\ LastCall(os').errno # "EIO") =>
                 ret'.op = "recv" /\ ret'.ok /\ tasks'[t] = NoTask]_vars

\* two recv futures were waiting for one packet: the first task has received
\* it, the attempt of the second found none and the task waits again
C21_Witness ==
  /\ tasks[1] = NoTask
  /\ tasks[2].op = "recv" /\ tasks[2].st = "waiting" /\ tasks[2].last = "EAGAIN"
  /\ ret.op = "recv" /\ ret.ok /\ ret.val = 2 /\ ret.buf = <<7, 9>>
  /\ LastCall(os).errno = "EAGAIN"
  /\ os.rx = <<>> /\ ~tuns[1].rd

\* what accessor m answers from: the name of the Interface and the state the
\* kernel keeps for the adapter
C22_AdapterWide(m) ==
  CASE m = "name" -> iface.name
    [] m \in {"mtu", "flags"} -> os.ad[m]
    [] m \in {"address", "destination", "netmask"} -> os.ad[m]
    [] m = "broadcast" ->
         IF platform = "linux" THEN os.ad.broadcast
         ELSE IF os.ad.address = Unset \/ os.ad.netmask = Unset THEN <<255, 255, 255, 255>>
         ELSE [i \in 1..4 |-> BitOrN(os.ad.address[i], 255 - os.ad.netmask[i], 8)]

(* C22: an accessor query answered through any Queue Handle of one         *)
(* allocation returns the value of the adapter-wide state, whichever       *)
(* handle it is called on and whichever handles were dropped before: the   *)
(* same accessor asked through another handle right before returned the    *)
(* same value, and after an allocation with address A and destination D    *)
(* (neither set anew since) address() returns A and destination() D on     *)
(* every handle.  A query leaves the adapter as it was.  (Queries during  *)
(* which the kernel failed a request are not compared.)                    *)
C22_AccessorsShared ==
  Answered =>
    /\ ret.val = C22_AdapterWide(ret.op)
    /\ os.ad = Unwrap(ret.pre)
    /\ (IsSome(hist.seen) /\ Unwrap(hist.seen).m = ret.op) => ret.val = Unwrap(hist.seen).val
    /\ (ret.op \in {"address", "destination"} /\ IsSome(params[ret.op])
          /\ hist.lastset[ret.op] = params[ret.op]) =>
         ret.val = Unwrap(params[ret.op])

\* the scenario: address() on the first handle returned 10.0.0.1, then
\* destination() on the second returned 10.1.0.1
C22_Witness ==
  /\ Len(tuns) = 2
  /\ IsSome(hist.seen)
  /\ Unwrap(hist.seen).m = "address" /\ Unwrap(hist.seen).h = 1
  /\ Unwrap(hist.seen).val = <<10, 0, 0, 1>>
  /\ Answered /\ ret.op = "destination" /\ ret.h = 2
  /\ ret.val = <<10, 1, 0, 1>>

(* C23: a failed allocation leaks no OS handle: when Tun::new or           *)
(* Tun::new_mq returns an error, every device handle opened during the     *)
(* attempt and the control socket have been closed.                        *)
C23_FailedAllocationLeaksNothing ==
  (ret.op \in {"new", "new_mq"} /\ pc = "failed") => os.open = {}

(* C24: the Interface of a successful allocation holds an open control     *)
(* socket while a Queue Handle of the allocation is alive (an allocation   *)
(* whose control socket could not be created fails), and no close is ever  *)
(* issued on an invalid handle.                                            *)
C24_ControlSocketValid ==
  /\ (pc = "live" /\ Alive # {}) => iface.socket \in os.open
  /\ os.ebadf[-1] = 0

\* the send of task t, made in this step, returned a count: the count is
\* within the remaining slice, and the slice loses exactly that many bytes
\* from its front, at least one, unless the loop ends
C25_Turn(t) ==
  LET rem == tasks[t].rem
      w == LastCall(os')
      n == IF w.ret <= 4 THEN 0 ELSE w.ret - 4
  IN w.ret >= 0 =>
       /\ n <= Len(rem)
       /\ n = 0 => tasks'[t].st = "idle" /\ ret'.err = "WriteZero"
       /\ (n >= 1 /\ n < Len(rem)) =>
            /\ tasks'[t].st = "waiting"
            /\ tasks'[t].rem = SubSeq(rem, n + 1, Len(rem))
            /\ Len(tasks'[t].rem) = Len(rem) - n
       /\ n = Len(rem) => tasks'[t].st = "idle" /\ ret'.ok
       /\ Len(tasks'[t].counts) <= Len(tasks[t].counts) + 1

(* C25: every turn of send_all makes strict progress within bounds: the    *)
(* count a send returns is at most the length of the remaining slice, the  *)
(* slice shrinks by exactly that count, which is at least 1, and send_all  *)
(* has returned after at most |buf| sends that returned: while it is       *)
(* pending the counts so far, all positive, and the remaining slice add up *)
(* to buf, and the remaining slice is not empty.                           *)
C25_SendAllProgress ==
  /\ [](\A t \in 1..MaxTasks : tasks[t].op = "send_all" =>
          LET buf == Unwrap(tasks[t].arg)
              counts == tasks[t].counts
          IN /\ \A j \in 1..Len(counts) : counts[j] >= 1
             /\ Sum(counts) + Len(tasks[t].rem) = Len(buf)
             /\ tasks[t].rem = SubSeq(buf, Sum(counts) + 1, Len(buf))
             /\ tasks[t].rem # <<>>
             /\ Len(counts) < Len(buf))
  /\ [](ret.op = "send_all" => Len(ret.counts) <= Len(Unwrap(ret.arg)))
  /\ [][\A t \in 1..MaxTasks :
          (tasks[t].op = "send_all" /\ Attempt(t)) => C25_Turn(t)]_vars

\* the first send of send_all accepted one byte of two, and the loop goes on
\* with the second
C25_Witness ==
  /\ tasks[1].op = "send_all" /\ tasks[1].st = "waiting"
  /\ tasks[1].arg = Some(<<7, 9>>) /\ tasks[1].counts = <<1>> /\ tasks[1].rem = <<9>>
  /\ LastCall(os).ret = 5

====
